---------------------------- MODULE Spec2Model ----------------------------
(***************************************************************************)
(* Model of the recruitment ranking core: the Skill Matcher                *)
(* (core/evaluator/skill_matcher.py), the Candidate Ranker                 *)
(* (core/evaluator/ranker.py), the vector store adapter                    *)
(* (core/rag/vectorstore.py) and the document corpus builder               *)
(* (core/rag/document_corpus.py).                                          *)
(*                                                                         *)
(* Texts are sequences of one-character strings.  A real number x (a       *)
(* similarity score, a percentage) is kept as the integer x * ScoreDen, so *)
(* that every comparison and product of the code is exact.  Every call to  *)
(* a provider (generation, embedding, Pinecone) is one step whose outcome  *)
(* is chosen by the environment: it returns or it raises.                  *)
(***************************************************************************)
EXTENDS Integers, Sequences, FiniteSets

(***************************************************************************)
(* Bounds of the model.                                                    *)
(***************************************************************************)
MaxK == 2
MaxDocs == 2
MaxRows == 2
EmbDen == 10

ScoreDen == EmbDen * EmbDen

(***************************************************************************)
(* Program constants.                                                      *)
(***************************************************************************)
MinJDLen == 20
RankerSkillK == 15
RankerThresholdPct == 70
DefaultThresholdPct == 65
SKILLS_INDEX_NAME == "skills-index"
RECRUITMENT_DOCS_INDEX_NAME == "recruitment-docs"

(***************************************************************************)
(* Text literals of the source.                                            *)
(***************************************************************************)
MARKER == <<"C", "A", "N", "D", "I", "D", "A", "T", "E", ":", " ">>
F_CANDIDATE == <<"\n", " ", " ", " ", " ", " ", " ", " ", " ", "C", "A", "N", "D", "I", "D", "A", "T", "E", ":", " ">>
F_LOCATION == <<"\n", " ", " ", " ", " ", " ", " ", " ", " ", "L", "O", "C", "A", "T", "I", "O", "N", ":", " ">>
F_OBJECTIVE == <<"\n", " ", " ", " ", " ", " ", " ", " ", " ", "O", "B", "J", "E", "C", "T", "I", "V", "E", ":", " ">>
F_SKILLS == <<"\n", " ", " ", " ", " ", " ", " ", " ", " ", "T", "O", "P", " ", "S", "K", "I", "L", "L", "S", ":", " ">>
F_EXPERIENCE == <<"\n", " ", " ", " ", " ", " ", " ", " ", " ", "E", "X", "P", "E", "R", "I", "E", "N", "C", "E", " ", "S", "U", "M", "M", "A", "R", "Y", ":", " ">>
F_EDUCATION == <<"\n", " ", " ", " ", " ", " ", " ", " ", " ", "E", "D", "U", "C", "A", "T", "I", "O", "N", " ", "S", "U", "M", "M", "A", "R", "Y", ":", " ">>
F_END == <<"\n", " ", " ", " ", " ", " ", " ", " ", " ">>
UNKNOWN == <<"U", "n", "k", "n", "o", "w", "n">>
NO_SUMMARY == <<"N", "o", " ", "s", "u", "m", "m", "a", "r", "y", " ", "d", "e", "f", "i", "n", "e", "d", ".">>
NA == <<"N", "/", "A">>
AT == <<" ", "a", "t", " ">>
IN_ == <<" ", "i", "n", " ">>
COMMA_SP == <<",", " ">>
SEMI_SP == <<";", " ">>
SPACE == <<" ">>
NEWLINE == <<"\n">>
DELIMITER == <<"|", "|", "|">>
EMPTY == << >>
ERROR_EMAIL ==
    <<"E", "r", "r", "o", "r", ":", " ", "C", "o", "u", "l", "d", " ", "n", "o", "t", " ", "g", "e", "n", "e", "r", "a", "t", "e", " ", "e", "m", "a", "i", "l", " ", "a", "f", "t", "e", "r", " ", "m", "u", "l", "t", "i", "p", "l", "e", " ", "r", "e", "t", "r", "i", "e", "s", ".">>
FAILED_REVIEW ==
    <<"L", "L", "M", " ", "e", "x", "t", "r", "a", "c", "t", "i", "o", "n", " ", "f", "a", "i", "l", "e", "d", ".", " ", "P", "l", "e", "a", "s", "e", " ", "r", "e", "v", "i", "e", "w", " ", "t", "h", "e", " ", "f", "u", "l", "l", " ",
    "d", "o", "c", "u", "m", "e", "n", "t", ".">>
FAILED_HEURISTIC ==
    <<"L", "L", "M", " ", "e", "x", "t", "r", "a", "c", "t", "i", "o", "n", " ", "f", "a", "i", "l", "e", "d", ".", " ", "U", "s", "i", "n", "g", " ", "h", "e", "u", "r", "i", "s", "t", "i", "c", " ", "f", "a", "l", "l", "b", "a", "c", "k", ".">>
CANDIDATE_SP == <<"C", "a", "n", "d", "i", "d", "a", "t", "e", " ">>
LOCAL_DOC == <<"l", "o", "c", "a", "l", "-", "d", "o", "c", "-">>
DIGITS == <<"1", "2", "3", "4", "5", "6", "7", "8", "9">>

(***************************************************************************)
(* Python's str methods, on sequences of characters.                       *)
(***************************************************************************)
Whitespace == {" ", "\n", "\t"}

RECURSIVE lstrip(_)
lstrip(s) ==
    IF s # << >> /\ Head(s) \in Whitespace THEN lstrip(Tail(s)) ELSE s

RECURSIVE rstrip(_)
rstrip(s) ==
    IF s # << >> /\ s[Len(s)] \in Whitespace
    THEN rstrip(SubSeq(s, 1, Len(s) - 1))
    ELSE s

strip(s) == rstrip(lstrip(s))

startswith(s, prefix) ==
    Len(s) >= Len(prefix) /\ SubSeq(s, 1, Len(prefix)) = prefix

\* str.replace(old, new): every non-overlapping occurrence, left to right.
RECURSIVE replace(_, _, _)
replace(s, old, new) ==
    IF s = << >> THEN << >>
    ELSE IF startswith(s, old)
         THEN new \o replace(SubSeq(s, Len(old) + 1, Len(s)), old, new)
         ELSE <<Head(s)>> \o replace(Tail(s), old, new)

\* str.split(sep): cut at every non-overlapping occurrence of sep, left to
\* right; "" splits to [""].
RECURSIVE split(_, _)
split(s, sep) ==
    IF s = << >> THEN << << >> >>
    ELSE IF startswith(s, sep)
         THEN << << >> >> \o split(SubSeq(s, Len(sep) + 1, Len(s)), sep)
         ELSE LET r == split(Tail(s), sep)
              IN  << <<Head(s)>> \o Head(r) >> \o Tail(r)

\* str.split(c) for a one-character separator, by the positions of c: the
\* k-th part lies between the (k-1)-th and the k-th occurrence.
splitlines(s, c) ==
    LET cuts == {i \in 1..Len(s) : s[i] = c}
        cut(k) == IF k = 0 THEN 0
                  ELSE IF k > Cardinality(cuts) THEN Len(s) + 1
                  ELSE CHOOSE i \in cuts : Cardinality({j \in cuts : j < i}) = k - 1
    IN  [k \in 1..(Cardinality(cuts) + 1) |->
            SubSeq(s, cut(k - 1) + 1, cut(k) - 1)]

\* sep.join(parts)
RECURSIVE join(_, _)
join(sep, parts) ==
    IF parts = << >> THEN << >>
    ELSE IF Len(parts) = 1 THEN parts[1]
         ELSE parts[1] \o sep \o join(sep, Tail(parts))


(***************************************************************************)
(* Exact arithmetic on scores: a real x is the integer x * ScoreDen, a     *)
(* threshold t is the integer t * 100 (a percentage).                      *)
(***************************************************************************)
Min(a, b) == IF a <= b THEN a ELSE b
Max(a, b) == IF a >= b THEN a ELSE b

\* A mutant of passes_threshold: the comparison is dropped.
passes_always(score, thresholdPct) == TRUE

\* skill_matcher.py:47, score >= score_threshold
passes_threshold(score, thresholdPct) == score * 100 >= thresholdPct * ScoreDen

\* ranker.py:173, score * 100
times100(score) == score * 100

\* A mutant of normalized_score: the upper clamp is dropped.
normalized_score_no_min(score) == Max(0, times100(score))

\* A mutant of normalized_score: the lower clamp is dropped.
normalized_score_no_max(score) == Min(100 * ScoreDen, times100(score))

\* ranker.py:82, max(0, min(100, score * 100))
normalized_score(score) == Max(0, Min(100 * ScoreDen, times100(score)))

\* ranker.py:72, docs @ q for one document
dot(d, q) == d[1] * q[1] + d[2] * q[2]

(***************************************************************************)
(* The augmented chunk of a structured record (document_corpus.py).        *)
(***************************************************************************)
exp_item(job) ==
    (IF job.hasTitle THEN job.Title ELSE NA) \o AT \o job.Company
        \o <<" ", "[">> \o join(COMMA_SP, job.Technologies) \o <<"]">>

edu_item(e) == e.Degree \o IN_ \o e.Major

\* document_corpus.py:177-182 and 187
exp_list(jobs) == [i \in 1..Len(jobs) |-> exp_item(jobs[i])]

edu_list(es) == [i \in 1..Len(es) |-> edu_item(es[i])]

vector_content(data) ==
    F_CANDIDATE \o (IF data.hasName THEN data.Name ELSE UNKNOWN)
        \o F_LOCATION \o (IF data.hasLocation THEN data.Location ELSE UNKNOWN)
        \o F_OBJECTIVE \o data.Career_Objective
        \o F_SKILLS \o join(COMMA_SP, data.Skills)
        \o F_EXPERIENCE \o join(SEMI_SP, exp_list(data.Experience))
        \o F_EDUCATION \o join(SEMI_SP, edu_list(data.Education))
        \o F_END

\* A mutant of chunk_text: the name is written without its field header.
chunk_text_no_header(data) ==
    strip((IF data.hasName THEN data.Name ELSE UNKNOWN) \o F_LOCATION)

\* document_corpus.py:202, content=vector_content.strip()
chunk_text(data) == strip(vector_content(data))

(***************************************************************************)
(* The name of a database-mode record (ranker.py:161-167).                 *)
(***************************************************************************)
\* A mutant of scan_lines: the loop does not break, the last line that starts
\* with the marker gives the name.
RECURSIVE scan_lines_no_break(_)
scan_lines_no_break(summary_lines) ==
    IF summary_lines = << >> THEN UNKNOWN
    ELSE LET later == scan_lines_no_break(Tail(summary_lines))
         IN  IF later # UNKNOWN THEN later
             ELSE IF startswith(Head(summary_lines), MARKER)
                  THEN strip(replace(Head(summary_lines), MARKER, EMPTY))
                  ELSE UNKNOWN

RECURSIVE scan_lines(_)
scan_lines(summary_lines) ==
    IF summary_lines = << >> THEN UNKNOWN
    ELSE IF startswith(Head(summary_lines), MARKER)
         THEN strip(replace(Head(summary_lines), MARKER, EMPTY))
         ELSE scan_lines(Tail(summary_lines))

candidate_name(candidate_summary) ==
    scan_lines(splitlines(candidate_summary, "\n"))

(***************************************************************************)
(* Inputs and environment.                                                 *)
(***************************************************************************)
Repeat(c, n) == [i \in 1..n |-> c]

\* job_description_text: None, "", a text one short of the minimum, a text
\* of the minimum length.
JDs ==
    {[isNone |-> TRUE, text |-> EMPTY]}
        \cup {[isNone |-> FALSE, text |-> Repeat("j", n)] :
                  n \in {0, MinJDLen - 1, MinJDLen}}

\* A mutant of too_short: the minimum is one character lower.
too_short_below(jd) ==
    jd.isNone \/ jd.text = EMPTY \/ Len(jd.text) < MinJDLen - 1

\* skill_matcher.py:20, not job_description_text or len(...) < 20
too_short(jd) == jd.isNone \/ jd.text = EMPTY \/ Len(jd.text) < MinJDLen

Thresholds == {0, DefaultThresholdPct, RankerThresholdPct}

\* The similarity scores the skills index and the candidate index may report,
\* and a match that carries no score at all.
SkillScores ==
    {[hasScore |-> FALSE, score |-> 0]}
        \cup {[hasScore |-> TRUE, score |-> (p * ScoreDen) \div 100] :
                  p \in {60, 70, 100}}

DocScores ==
    {[hasScore |-> FALSE, score |-> 0]}
        \cup {[hasScore |-> TRUE, score |-> (p * ScoreDen) \div 100] :
                  p \in {-50, 70, 125}}

SampleRecord ==
    [hasName |-> TRUE, Name |-> <<"A", "l">>,
     hasLocation |-> FALSE, Location |-> EMPTY,
     Career_Objective |-> EMPTY,
     Skills |-> << <<"p", "y">> >>,
     Experience |-> << >>,
     Education |-> << >>]

Entry(v, hasMeta, hasContent, content) ==
    [vector |-> v, hasMeta |-> hasMeta, hasContent |-> hasContent,
     content |-> content, tags |-> {}]

\* A skills index holding two well-formed skills, one whose metadata has no
\* content and one without metadata.
SkillsData ==
    [id \in {"CAN_NLP_LLMS", "CAN_RAG_VECTORS", "CAN_NO_CONTENT", "CAN_NO_META"} |->
        CASE id = "CAN_NLP_LLMS" -> Entry(<<EmbDen, 0>>, TRUE, TRUE, <<"n", "l", "p">>)
          [] id = "CAN_RAG_VECTORS" -> Entry(<<0, EmbDen>>, TRUE, TRUE, <<"r", "a", "g">>)
          [] id = "CAN_NO_CONTENT" -> Entry(<<EmbDen, 0>>, TRUE, FALSE, EMPTY)
          [] OTHER -> Entry(<<EmbDen, 0>>, FALSE, FALSE, EMPTY)]

\* A content of three lines: the marker after a blank, then a line that
\* starts with the marker and holds it a second time, then another line that
\* starts with the marker.
MarkerLines ==
    <<" ">> \o MARKER \o <<"X", "\n">>
        \o MARKER \o <<" ">> \o MARKER \o <<"B", "o", " ", "\n">>
        \o MARKER \o <<"Z">>

\* A candidate index holding one chunk written by the corpus builder, one
\* content without the name line, one metadata without content, one vector
\* without metadata and one content with several marker lines.
DocsData ==
    [id \in {"cand_1", "cand_2", "cand_3", "cand_4", "cand_5"} |->
        CASE id = "cand_1" -> Entry(<<EmbDen, 0>>, TRUE, TRUE, chunk_text(SampleRecord))
          [] id = "cand_2" -> Entry(<<0, EmbDen>>, TRUE, TRUE, <<"c", "v">>)
          [] id = "cand_5" -> Entry(<<0, EmbDen>>, TRUE, TRUE, MarkerLines)
          [] id = "cand_3" -> Entry(<<EmbDen, 0>>, TRUE, FALSE, EMPTY)
          [] OTHER -> Entry(<<EmbDen, 0>>, FALSE, FALSE, EMPTY)]

NoData == [id \in {} |-> Entry(<<0, 0>>, FALSE, FALSE, EMPTY)]

IndexNames == {SKILLS_INDEX_NAME, RECRUITMENT_DOCS_INDEX_NAME}

\* The stores a ranking call may find: each index exists with its data or
\* does not exist.
RankStores ==
    {[existing |-> e,
      data |-> [n \in IndexNames |->
                   IF n \notin e THEN NoData
                   ELSE IF n = SKILLS_INDEX_NAME THEN SkillsData ELSE DocsData]] :
        e \in SUBSET IndexNames}

VARIABLES
    pc,                 \* position of the running call
    entry,              \* the function the caller invoked
    args,               \* its arguments
    stage,              \* which index the running store call addresses
    query_text,         \* the text of the running store call
    matches,            \* the last matches an index query returned
    store,              \* the vector store: existing indexes and their vectors
    calls,              \* the provider calls of the running call, in order
    result,             \* what the call returned, or that it raised
    query_embedding,    \* local mode: the embedding of the synthesized query
    scores,             \* local mode: the raw dot product of every document
    ranked_candidates,  \* local mode: the records built so far
    rows,               \* corpus build: the rows read from the CSV file
    row_i,              \* corpus build: the 1-based position of the running row
    pending,            \* corpus build: the document being added
    corpus_records,     \* for every id the build upserted, the record it wrote
    upserted,           \* for every (index, id) upserted, the arguments of the
                        \* latest add_document call that upserted it, and
                        \* whether that call replaced an entry
    attempt             \* parsing: the 0-based attempt of the retry loop

vars ==
    <<pc, entry, args, stage, query_text, matches, store, calls, result,
      query_embedding, scores, ranked_candidates,
      rows, row_i, pending, corpus_records, upserted, attempt>>

locals == <<query_embedding, scores, ranked_candidates>>

NoEmbedding == <<0, 0>>

ResetLocals ==
    /\ query_embedding' = NoEmbedding
    /\ scores' = << >>
    /\ ranked_candidates' = << >>

\* metadata=None of add_document
NoMetadata ==
    [isNone |-> TRUE, tags |-> {}, hasContent |-> FALSE, content |-> EMPTY]

NoArgs ==
    [jd |-> [isNone |-> TRUE, text |-> EMPTY], k |-> 0, docsNone |-> TRUE,
     docs |-> << >>, skill_k |-> 0, threshold |-> 0,
     id |-> "", content |-> EMPTY, metadata |-> NoMetadata, index_name |-> ""]

NoResult == [kind |-> "none", value |-> << >>]

\* One provider call: count is the number of texts an embedding call
\* carries or the seconds of a wait, reply the text a generation call
\* answered, error the class of the exception an email generation call
\* raised.
LogEntry(op, index, ok, text, top_k, count) ==
    [op |-> op, index |-> index, ok |-> ok, text |-> text, top_k |-> top_k,
     count |-> count, reply |-> EMPTY, error |-> ""]

\* index_name of the running retrieve_vector_data, add_document or
\* _get_or_create_index call.  The
\* corpus build passes DOCUMENT_INDEX_NAME (document_corpus.py:142), read
\* from the same DOCS_INDEX_NAME variable as RECRUITMENT_DOCS_INDEX_NAME; the
\* model takes the variable as set, to the default name.
index_name ==
    IF stage = "skills" THEN SKILLS_INDEX_NAME
    ELSE IF stage \in {"add", "index"} THEN pending.index_name
    ELSE RECRUITMENT_DOCS_INDEX_NAME

NoPending ==
    [id |-> "", content |-> EMPTY, indexNone |-> FALSE,
     hasData |-> FALSE, data |-> SampleRecord,
     index_name |-> "", metadata |-> NoMetadata]

\* A mutant of top_k: the candidate index is asked for as many matches as
\* the skills index.
top_k_of_skills == args.skill_k

\* k of the running retrieve_vector_data call
top_k == IF stage = "skills" THEN args.skill_k ELSE args.k

(***************************************************************************)
(* What index.query may answer: at most top_k matches, each a distinct     *)
(* vector of the index with its stored metadata, in any order and with any *)
(* score.                                                                  *)
(***************************************************************************)
Match(id, e, sc) ==
    [id |-> id, hasScore |-> sc.hasScore, score |-> sc.score,
     hasMeta |-> e.hasMeta, hasContent |-> e.hasContent, content |-> e.content]

Injective(f) == \A i, j \in DOMAIN f : f[i] = f[j] => i = j

QueryResponses(data, k, Scores) ==
    UNION {
        {[i \in 1..n |-> Match(order[i], data[order[i]], sc[i])] :
            order \in {f \in [1..n -> DOMAIN data] : Injective(f)},
            sc \in [1..n -> Scores]} :
        n \in 0..Min(k, Cardinality(DOMAIN data))}

(***************************************************************************)
(* get_matching_skills, after the query (skill_matcher.py:34-60).          *)
(***************************************************************************)
Skill(m, score) ==
    [id |-> m.id, score |-> score, hasContent |-> m.hasContent,
     content |-> m.content]

\* A mutant of filter_loop: a qualifying skill is put in front of the list.
RECURSIVE filter_loop_reversed(_, _, _)
filter_loop_reversed(ms, thresholdPct, filtered_skills) ==
    IF ms = << >> THEN [raised |-> FALSE, value |-> filtered_skills]
    ELSE LET match == Head(ms)
             score == IF match.hasScore THEN match.score ELSE 0
         IN  IF ~match.hasMeta THEN [raised |-> TRUE, value |-> << >>]
             ELSE filter_loop_reversed(Tail(ms), thresholdPct,
                      IF passes_threshold(score, thresholdPct)
                      THEN <<Skill(match, score)>> \o filtered_skills
                      ELSE filtered_skills)

\* The loop of lines 42-52; raised is the KeyError of match['metadata'].
RECURSIVE filter_loop(_, _, _)
filter_loop(ms, thresholdPct, filtered_skills) ==
    IF ms = << >> THEN [raised |-> FALSE, value |-> filtered_skills]
    ELSE LET match == Head(ms)
             score == IF match.hasScore THEN match.score ELSE 0
         IN  IF ~match.hasMeta THEN [raised |-> TRUE, value |-> << >>]
             ELSE filter_loop(Tail(ms), thresholdPct,
                      IF passes_threshold(score, thresholdPct)
                      THEN Append(filtered_skills, Skill(match, score))
                      ELSE filtered_skills)

\* The try block of lines 26-56 for the outcome o of retrieve_vector_data.
try_block(o, thresholdPct) ==
    IF o.raised THEN [raised |-> TRUE, value |-> << >>]
    ELSE IF o.matches = << >> THEN [raised |-> FALSE, value |-> << >>]
    ELSE filter_loop(o.matches, thresholdPct, << >>)

\* A mutant of except_clause: the exception is raised again.
except_reraise(r) == r

\* skill_matcher.py:58-60: every exception becomes the empty list.
except_clause(r) ==
    [raised |-> FALSE, value |-> IF r.raised THEN << >> ELSE r.value]

(***************************************************************************)
(* rank_candidates, database mode, after the query (ranker.py:146-177).    *)
(***************************************************************************)
candidate_summary(match) ==
    IF match.hasContent THEN match.content ELSE NO_SUMMARY

\* ranker.py:169-175
db_record(i, match) ==
    [rank |-> i, id |-> match.id,
     name |-> candidate_name(candidate_summary(match)),
     match_score |-> times100(match.score),
     summary |-> candidate_summary(match)]

\* match['score'] or match['metadata'] is a KeyError
key_error(match) == ~match.hasScore \/ ~match.hasMeta

\* A mutant of format_matches: the matches are taken last to first.
format_matches_reversed(ms) ==
    [i \in 1..Len(ms) |-> db_record(i, ms[Len(ms) + 1 - i])]

\* ranker.py:154-177, the loop over enumerate(matches)
format_matches(ms) == [i \in 1..Len(ms) |-> db_record(i, ms[i])]

(***************************************************************************)
(* How a call ends, and how the stages of rank_candidates follow.  These   *)
(* set the position of the call: pc, stage, query_text, matches, result,   *)
(* row_i and pending.                                                      *)
(***************************************************************************)
Return(value, ms) ==
    /\ pc' = "done"
    /\ result' = [kind |-> "returned", value |-> value]
    /\ stage' = "none"
    /\ query_text' = EMPTY
    /\ matches' = ms
    /\ row_i' = 0
    /\ pending' = NoPending

Raise(ms) ==
    /\ pc' = "done"
    /\ result' = [kind |-> "raised", value |-> << >>]
    /\ stage' = "none"
    /\ query_text' = EMPTY
    /\ matches' = ms
    /\ row_i' = 0
    /\ pending' = NoPending

\* The call goes on to the provider call named p.
Goto(p) ==
    /\ pc' = p
    /\ UNCHANGED <<stage, query_text, matches, result, row_i, pending>>

\* A mutant of SkillsDone: rank_candidates goes on to the candidate index
\* also when no skill matched.
SkillsDone_no_abort(r, ms) ==
    LET matching_skills == r.value
    IN
    IF r.raised THEN Raise(ms)
    ELSE IF entry = "get_matching_skills" THEN Return(matching_skills, ms)
    ELSE IF \E i \in 1..Len(matching_skills) : ~matching_skills[i].hasContent
         THEN Raise(<< >>)
    ELSE /\ pc' = "list_indexes"
         /\ stage' = "docs"
         /\ query_text' =
                join(SPACE, [i \in 1..Len(matching_skills) |->
                                matching_skills[i].content])
         /\ matches' = ms
         /\ UNCHANGED <<result, row_i, pending>>

\* get_matching_skills returned matching_skills; ranker.py:127-144 follows
\* when rank_candidates called it.
SkillsDone(r, ms) ==
    LET matching_skills == r.value
    IN
    IF r.raised THEN Raise(ms)
    ELSE IF entry = "get_matching_skills" THEN Return(matching_skills, ms)
    ELSE IF matching_skills = << >> THEN Return(<< >>, << >>)
    ELSE IF \E i \in 1..Len(matching_skills) : ~matching_skills[i].hasContent
         THEN Raise(<< >>)
    ELSE /\ pc' = "list_indexes"
         /\ stage' = "docs"
         /\ query_text' =
                join(SPACE, [i \in 1..Len(matching_skills) |->
                                matching_skills[i].content])
         /\ matches' = ms
         /\ UNCHANGED <<result, row_i, pending>>

\* retrieve_vector_data returned (or raised) for the candidate index.
DocsDone(o) ==
    IF o.raised THEN Raise(<< >>)
    ELSE IF o.matches = << >> THEN Return(<< >>, << >>)
    ELSE IF \E i \in 1..Len(o.matches) : key_error(o.matches[i])
         THEN Raise(o.matches)
    ELSE Return(format_matches(o.matches), o.matches)

Deliver(o) ==
    IF stage = "skills"
    THEN SkillsDone(except_clause(try_block(o, args.threshold)), o.matches)
    ELSE DocsDone(o)

NoMatches == [raised |-> FALSE, matches |-> << >>]
Raised == [raised |-> TRUE, matches |-> << >>]

(***************************************************************************)
(* build_document_corpus (document_corpus.py:144-211): the loop over the   *)
(* rows.                                                                   *)
(***************************************************************************)
\* The first row at or after position i whose text has 10 characters or
\* more (lines 163-165 skip the others), or one past the last row.
next_row(i) ==
    LET long == {j \in i..Len(rows) : Len(rows[j].raw_text) >= 10}
    IN  IF long = {} THEN Len(rows) + 1
        ELSE CHOOSE j \in long : \A m \in long : j <= m

\* The loop goes on with the rows from position i.
Rows(i) ==
    IF next_row(i) > Len(rows)
    THEN Return(<< >>, << >>)
    ELSE /\ pc' = "gem_json"
         /\ row_i' = next_row(i)
         /\ stage' = "none"
         /\ query_text' = EMPTY
         /\ pending' = NoPending
         /\ UNCHANGED <<matches, result>>

\* add_document returned, to its caller or to the build loop, where lines
\* 203-206 print and sleep.
AddReturned ==
    IF entry = "add_document"
    THEN Return(<< >>, << >>)
    ELSE /\ pc' = "sleep"
         /\ UNCHANGED <<stage, query_text, matches, result, row_i, pending>>

\* add_document raised: lines 208-209 catch it, the loop goes on.
AddRaised == IF entry = "add_document" THEN Raise(<< >>) ELSE Rows(row_i + 1)

(***************************************************************************)
(* What follows each outcome of _get_or_create_index and of the embedding  *)
(* call, for retrieve_vector_data and for add_document.                    *)
(***************************************************************************)
\* list_indexes or Index raised: neither function catches it.
IndexRaised ==
    IF stage = "add" THEN AddRaised
    ELSE IF stage = "index" THEN Raise(<< >>)
    ELSE Deliver(Raised)

\* The handle is None: vectorstore.py:107-108, and line 78 for add_document.
IndexNone ==
    IF stage = "add"
    THEN /\ pc' = "PineconeVectorStore"
         /\ pending' = [pending EXCEPT !.indexNone = TRUE]
         /\ UNCHANGED <<stage, query_text, matches, result, row_i>>
    ELSE IF stage = "index" THEN Return(<< >>, << >>)
    ELSE Deliver(NoMatches)

\* The handle is there: vectorstore.py:110-112, and line 78 for add_document.
IndexFound ==
    IF stage = "add" THEN Goto("PineconeVectorStore")
    ELSE IF stage = "index" THEN Return(<<index_name>>, << >>)
    ELSE Goto("embed_query")

\* The embedding failed: vectorstore.py:122-124 and 92-93 catch it.
EmbedFailed == IF stage = "add" THEN AddReturned ELSE Deliver(NoMatches)

EmbedDone == IF stage = "add" THEN Goto("upsert") ELSE Goto("query")

(***************************************************************************)
(* The callers.                                                            *)
(***************************************************************************)
Idle == pc = "idle"

\* skill_matcher.py:20-32: fail fast, or query the skills index.
StartSkills(jd) ==
    IF too_short(jd)
    THEN Return(<< >>, << >>)
    ELSE /\ pc' = "list_indexes"
         /\ stage' = "skills"
         /\ query_text' = jd.text
         /\ matches' = << >>
         /\ result' = NoResult
         /\ UNCHANGED <<row_i, pending>>

\* get_matching_skills(job_description_text, k, score_threshold)
get_matching_skills ==
    /\ Idle
    /\ \E jd \in JDs, k \in 1..MaxK, t \in Thresholds :
         /\ entry' = "get_matching_skills"
         /\ args' = [NoArgs EXCEPT !.jd = jd, !.skill_k = k, !.threshold = t]
         /\ StartSkills(jd)
    /\ calls' = << >>
    /\ ResetLocals
    /\ UNCHANGED <<store, rows, corpus_records, upserted, attempt>>

\* rank_candidates(job_description_text, k, candidate_docs=None)
rank_candidates_db ==
    /\ Idle
    /\ \E jd \in JDs, k \in 1..MaxK :
         /\ entry' = "rank_candidates"
         /\ args' = [NoArgs EXCEPT !.jd = jd, !.k = k,
                                   !.skill_k = RankerSkillK,
                                   !.threshold = RankerThresholdPct]
         /\ StartSkills(jd)
    /\ calls' = << >>
    /\ ResetLocals
    /\ UNCHANGED <<store, rows, corpus_records, upserted, attempt>>

(***************************************************************************)
(* retrieve_vector_data, add_document and _get_or_create_index             *)
(* (vectorstore.py), one step for each call to Pinecone or to the          *)
(* embedding model.                                                        *)
(***************************************************************************)
Log(op, ok) ==
    calls' = Append(calls, LogEntry(op, index_name, ok, query_text, top_k,
                                    IF op = "embed_query" THEN 1 ELSE 0))

\* A mutant of listed: the name is never found among the listed indexes.
listed_never(name, existing) == FALSE

\* vectorstore.py:45-47, name in existing
listed(name, existing) == name \in existing

\* vectorstore.py:44-47: pc.list_indexes() is outside every try, so its
\* failure leaves _get_or_create_index and its caller as an exception.
list_indexes ==
    /\ pc = "list_indexes"
    /\ \E ok \in BOOLEAN :
         /\ Log("list_indexes", ok)
         /\ IF ok
            THEN IF listed(index_name, store.existing)
                 THEN Goto("Index") ELSE Goto("create_index")
            ELSE IndexRaised
    /\ UNCHANGED <<entry, args, store, locals, rows, corpus_records,
                   upserted, attempt>>

\* vectorstore.py:48-62: a failed creation is caught and the handle is None.
create_index ==
    /\ pc = "create_index"
    /\ \E ok \in BOOLEAN :
         /\ Log("create_index", ok)
         /\ IF ok
            THEN /\ store' = [existing |-> store.existing \cup {index_name},
                              data |-> [store.data EXCEPT ![index_name] = NoData]]
                 /\ Goto("Index")
            ELSE /\ IndexNone
                 /\ UNCHANGED store
    /\ UNCHANGED <<entry, args, locals, rows, corpus_records,
                   upserted, attempt>>

\* vectorstore.py:64: pc.Index(name), outside every try.
Index ==
    /\ pc = "Index"
    /\ \E ok \in BOOLEAN :
         /\ Log("Index", ok)
         /\ IF ok THEN IndexFound ELSE IndexRaised
    /\ UNCHANGED <<entry, args, store, locals, rows, corpus_records,
                   upserted, attempt>>

\* vectorstore.py:85 and 112: embeddings.embed_query, inside the try.
embed_query ==
    /\ pc = "embed_query"
    /\ \E ok \in BOOLEAN :
         /\ Log("embed_query", ok)
         /\ IF ok THEN EmbedDone ELSE EmbedFailed
    /\ UNCHANGED <<entry, args, store, locals, rows, corpus_records,
                   upserted, attempt>>

\* vectorstore.py:114-124: the query answers or fails; a failure is caught.
query ==
    /\ pc = "query"
    /\ \/ /\ Log("query", FALSE)
          /\ Deliver(NoMatches)
       \/ /\ Log("query", TRUE)
          /\ \E ms \in QueryResponses(store.data[index_name], top_k,
                          IF stage = "skills" THEN SkillScores ELSE DocScores) :
               Deliver([raised |-> FALSE, matches |-> ms])
    /\ UNCHANGED <<entry, args, store, locals, rows, corpus_records,
                   upserted, attempt>>

(***************************************************************************)
(* rank_local_candidates (ranker.py:10-97) and extract_name_and_summary    *)
(* (helpers.py:29-80).                                                     *)
(***************************************************************************)
\* The documents a caller may supply: an empty text and a text of two lines.
DocTexts == {EMPTY, <<" ", "B", "o", "\n", "c", "v">>}

DocLists == UNION {[1..n -> DocTexts] : n \in 0..MaxDocs}

\* What the generation model may answer to the query-synthesis prompt.
GeneratedQuery == <<" ", "q", "\n">>

\* What the embedding model may answer for the query and for a document.
QueryVectors == {<<EmbDen, 0>>, <<EmbDen, EmbDen \div 2>>}

DocVectors ==
    {<<0, EmbDen>>, <<0 - (EmbDen \div 2), 0>>, <<EmbDen, EmbDen>>,
     <<2 * EmbDen, 0>>}

\* What the generation model may do for the name/summary prompt: answer with
\* the delimiter once or twice, answer without it, or fail.
ExtractionOutcomes ==
    {[raised |-> TRUE, text |-> EMPTY],
     [raised |-> FALSE, text |-> <<"A", "l", " ", "|", "|", "|", " ", "d", "e", "v">>],
     [raised |-> FALSE,
      text |-> <<" ", "B", " ", "|", "|", "|", " ", "q", "a", " ", "|", "|", "|", "x", "\n">>],
     [raised |-> FALSE, text |-> <<"?">>]}

\* str(i) for a one-digit i
str(i) == <<DIGITS[i]>>

\* ranker.py:76, f"local-doc-{i+1}" for the 1-based position i
local_doc_id(i) == LOCAL_DOC \o str(i)

\* A mutant of fallback_name: the fallback is always built from the id.
fallback_name_of_id(doc_text, doc_id) == CANDIDATE_SP \o doc_id

\* helpers.py:70 and 78
fallback_name(doc_text, doc_id) ==
    IF doc_text # EMPTY
    THEN strip(splitlines(doc_text, "\n")[1])
    ELSE CANDIDATE_SP \o doc_id

\* helpers.py:56-80, for the outcome of model.generate_content
extract_name_and_summary(doc_text, doc_id, outcome) ==
    IF outcome.raised
    THEN [name |-> fallback_name(doc_text, doc_id), summary |-> FAILED_HEURISTIC]
    ELSE LET parts == split(strip(outcome.text), DELIMITER)
         IN  IF Len(parts) >= 2
             THEN [name |-> strip(parts[1]), summary |-> strip(parts[2])]
             ELSE [name |-> fallback_name(doc_text, doc_id),
                   summary |-> FAILED_REVIEW]

\* A mutant of local_record: a document whose extraction raised loses its
\* score.
local_record_zero_on_failure(i, doc_text, score, outcome) ==
    LET candidate_id == local_doc_id(i)
        extracted == extract_name_and_summary(doc_text, candidate_id, outcome)
    IN  [rank |-> 0, id |-> candidate_id, name |-> extracted.name,
         match_score |-> IF outcome.raised THEN 0 ELSE normalized_score(score),
         summary |-> extracted.summary]

\* ranker.py:76-90, the record of the document at 1-based position i
local_record(i, doc_text, score, outcome) ==
    LET candidate_id == local_doc_id(i)
        extracted == extract_name_and_summary(doc_text, candidate_id, outcome)
    IN  [rank |-> 0, id |-> candidate_id, name |-> extracted.name,
         match_score |-> normalized_score(score),
         summary |-> extracted.summary]

\* A mutant of insert_desc: a record goes in front of the records of equal
\* score.
insert_desc_unstable(sorted, x) ==
    LET p == Cardinality({i \in 1..Len(sorted) :
                             sorted[i].match_score > x.match_score})
    IN  SubSeq(sorted, 1, p) \o <<x>> \o SubSeq(sorted, p + 1, Len(sorted))

\* list.sort(key=match_score, reverse=True) is stable: a record goes behind
\* every record already placed whose score is at least its own.
insert_desc(sorted, x) ==
    LET p == Cardinality({i \in 1..Len(sorted) :
                             sorted[i].match_score >= x.match_score})
    IN  SubSeq(sorted, 1, p) \o <<x>> \o SubSeq(sorted, p + 1, Len(sorted))

\* A mutant of sort_desc: the list is left in input order.
sort_desc_none(xs) == xs

\* ranker.py:93
RECURSIVE sort_desc(_)
sort_desc(xs) ==
    IF xs = << >> THEN << >>
    ELSE insert_desc(sort_desc(SubSeq(xs, 1, Len(xs) - 1)), xs[Len(xs)])

\* A mutant of assign_ranks: ranks keep the input position.
assign_ranks_none(xs) == xs

\* ranker.py:94-95
assign_ranks(xs) == [i \in 1..Len(xs) |-> [xs[i] EXCEPT !.rank = i]]

\* A mutant of top: nothing is cut.
top_all(xs, k) == xs

\* ranker.py:97, ranked_candidates[:k] for a positive k
top(xs, k) == SubSeq(xs, 1, Min(k, Len(xs)))

\* A mutant of ranked: the scores are sorted, the ids stay where they were.
ranked_ids_in_place(xs, k) ==
    LET sorted == assign_ranks(sort_desc(xs))
    IN  top([i \in 1..Len(xs) |-> [sorted[i] EXCEPT !.id = xs[i].id]], k)

\* ranker.py:92-97
ranked(xs, k) == top(assign_ranks(sort_desc(xs)), k)

\* A mutant of StartLocal: the empty list is not checked.
StartLocal_no_check(docs) ==
    /\ pc' = "generate_content"
    /\ stage' = "none"
    /\ query_text' = EMPTY
    /\ matches' = << >>
    /\ result' = NoResult
    /\ UNCHANGED <<row_i, pending>>

\* A mutant of StartLocal: the mode is chosen by the truth value of the list,
\* so the empty list takes the database path.
StartLocal_truthy(docs) ==
    /\ pc' = IF docs = << >> THEN "list_indexes" ELSE "generate_content"
    /\ stage' = IF docs = << >> THEN "skills" ELSE "none"
    /\ query_text' = EMPTY
    /\ matches' = << >>
    /\ result' = NoResult
    /\ UNCHANGED <<row_i, pending>>

\* ranker.py:25-29
StartLocal(docs) ==
    IF docs = << >>
    THEN Return(<< >>, << >>)
    ELSE /\ pc' = "generate_content"
         /\ stage' = "none"
         /\ query_text' = EMPTY
         /\ matches' = << >>
         /\ result' = NoResult
         /\ UNCHANGED <<row_i, pending>>

\* rank_candidates(job_description_text, k, candidate_docs) with a list
rank_candidates_local ==
    /\ Idle
    /\ \E jd \in JDs, k \in 1..MaxK, docs \in DocLists :
         /\ entry' = "rank_candidates"
         /\ args' = [NoArgs EXCEPT !.jd = jd, !.k = k, !.docsNone = FALSE,
                                   !.docs = docs]
         /\ StartLocal(docs)
    /\ calls' = << >>
    /\ ResetLocals
    /\ UNCHANGED <<store, rows, corpus_records, upserted, attempt>>

LocalLog(op, ok, text, count) ==
    calls' = Append(calls, LogEntry(op, "", ok, text, 0, count))

\* A mutant of generate_content: the synthesized query is not embedded.
generate_content_only ==
    /\ pc = "generate_content"
    /\ \E ok \in BOOLEAN :
         /\ LocalLog("generate_content", ok, args.jd.text, 0)
         /\ IF ok
            THEN /\ pc' = "embed_documents"
                 /\ query_text' = strip(GeneratedQuery)
                 /\ UNCHANGED <<stage, matches, result, row_i, pending>>
            ELSE Raise(<< >>)
    /\ UNCHANGED <<entry, args, store, locals, rows, corpus_records,
                   upserted, attempt>>

\* ranker.py:44-48: model.generate_content is in no try.
generate_content ==
    /\ pc = "generate_content"
    /\ \E ok \in BOOLEAN :
         /\ LocalLog("generate_content", ok, args.jd.text, 0)
         /\ IF ok
            THEN /\ pc' = "embed_content"
                 /\ query_text' = strip(GeneratedQuery)
                 /\ UNCHANGED <<stage, matches, result, row_i, pending>>
            ELSE Raise(<< >>)
    /\ UNCHANGED <<entry, args, store, locals, rows, corpus_records,
                   upserted, attempt>>

\* ranker.py:53-56: the query embedding, in no try.
embed_content ==
    /\ pc = "embed_content"
    /\ \E ok \in BOOLEAN :
         /\ LocalLog("embed_content", ok, query_text, 1)
         /\ IF ok
            THEN /\ pc' = "embed_documents"
                 /\ \E q \in QueryVectors : query_embedding' = q
                 /\ UNCHANGED <<stage, query_text, matches, result, row_i, pending>>
            ELSE /\ Raise(<< >>)
                 /\ UNCHANGED query_embedding
    /\ UNCHANGED <<entry, args, store, scores, ranked_candidates, rows,
                   corpus_records, upserted, attempt>>

\* ranker.py:59-72: one embedding call for all documents, then docs @ q.
embed_documents ==
    /\ pc = "embed_documents"
    /\ \E ok \in BOOLEAN :
         /\ LocalLog("embed_content", ok, EMPTY, Len(args.docs))
         /\ IF ok
            THEN /\ pc' = "extract"
                 /\ \E document_embeddings \in [1..Len(args.docs) -> DocVectors] :
                      scores' = [i \in 1..Len(args.docs) |->
                                    dot(document_embeddings[i], query_embedding)]
                 /\ UNCHANGED <<stage, query_text, matches, result, row_i, pending>>
            ELSE /\ Raise(<< >>)
                 /\ UNCHANGED scores
    /\ UNCHANGED <<entry, args, store, query_embedding, ranked_candidates, rows,
                   corpus_records, upserted, attempt>>

\* ranker.py:74-97: one pass of the loop; after the last one the sort, the
\* ranks and the cut.
extract ==
    /\ pc = "extract"
    /\ LET i == Len(ranked_candidates) + 1
       IN  \E outcome \in ExtractionOutcomes :
             LET record == local_record(i, args.docs[i], scores[i], outcome)
                 all == Append(ranked_candidates, record)
             IN  /\ calls' = Append(calls,
                        [LogEntry("extract_name_and_summary", "",
                                  ~outcome.raised, args.docs[i], 0, 0)
                            EXCEPT !.reply = outcome.text])
                 /\ IF i = Len(args.docs)
                    THEN /\ Return(ranked(all, args.k), << >>)
                         /\ ranked_candidates' = << >>
                    ELSE /\ ranked_candidates' = all
                         /\ UNCHANGED <<pc, stage, query_text, matches, result,
                                         row_i, pending>>
    /\ UNCHANGED <<entry, args, store, query_embedding, scores, rows,
                   corpus_records, upserted, attempt>>

(***************************************************************************)
(* build_document_corpus and add_document: the steps of one row.           *)
(***************************************************************************)
Record(hasName, name, objective) ==
    [hasName |-> hasName, Name |-> name,
     hasLocation |-> FALSE, Location |-> EMPTY,
     Career_Objective |-> objective,
     Skills |-> << <<"p", "y">> >>,
     Experience |-> << >>,
     Education |-> << >>]

\* The names the parser may report: plain, with a leading blank, holding the
\* field header itself, empty, and of two lines.
Names ==
    {<<"A", "l">>, <<" ", "A", "l">>, MARKER \o <<"A", "l">>, EMPTY,
     <<"A", "\n", "l">>}

\* The records gem_json may return: one for every name, one without a Name
\* and one whose objective holds a line that looks like the name line.
Records ==
    {Record(TRUE, n, EMPTY) : n \in Names}
        \cup {Record(FALSE, EMPTY, EMPTY),
              Record(TRUE, <<"A", "l">>, <<"\n">> \o MARKER \o <<"Z">>)}

\* What gem_json may return: None after its retries, or a record.
ParseOutcomes ==
    {[hasData |-> FALSE, data |-> SampleRecord]}
        \cup {[hasData |-> TRUE, data |-> d] : d \in Records}

\* The rows of the CSV file: a text too short to parse, and texts long enough
\* under two ids.
RowValues ==
    {[raw_text |-> Repeat("r", 9), id |-> "cand_1"],
     [raw_text |-> Repeat("r", 10), id |-> "cand_1"],
     [raw_text |-> Repeat("r", 10), id |-> "cand_2"]}

\* embeddings.embed_query(content) of add_document: a stand-in for the
\* embedding model, which gives equal texts equal vectors.
embed_text(content) == <<EmbDen, (Len(content) % 2) * EmbDen>>

\* A mutant of final_metadata: a content key the caller passed is kept.
final_metadata_setdefault(metadata, content) ==
    [tags |-> IF metadata.isNone THEN {} ELSE metadata.tags,
     hasContent |-> TRUE,
     content |-> IF ~metadata.isNone /\ metadata.hasContent
                 THEN metadata.content ELSE content]

\* vectorstore.py:87-88: the metadata of the caller, or {}, with the key
\* content set to the embedded text.
final_metadata(metadata, content) ==
    [tags |-> IF metadata.isNone THEN {} ELSE metadata.tags,
     hasContent |-> TRUE,
     content |-> content]

\* build_document_corpus(csv_filepath, resume_col, id_col, limit) for a file
\* that exists and holds at least one row
build_document_corpus ==
    /\ Idle
    /\ \E n \in 1..MaxRows : \E rs \in [1..n -> RowValues] :
         /\ rows' = rs
         /\ IF \A j \in 1..n : Len(rs[j].raw_text) < 10
            THEN Return(<< >>, << >>)
            ELSE /\ pc' = "gem_json"
                 /\ row_i' = CHOOSE j \in 1..n :
                                /\ Len(rs[j].raw_text) >= 10
                                /\ \A m \in 1..(j - 1) : Len(rs[m].raw_text) < 10
                 /\ stage' = "none"
                 /\ query_text' = EMPTY
                 /\ pending' = NoPending
                 /\ matches' = << >>
                 /\ result' = NoResult
    /\ entry' = "build_document_corpus"
    /\ args' = NoArgs
    /\ calls' = << >>
    /\ ResetLocals
    /\ UNCHANGED <<store, corpus_records, upserted, attempt>>

\* document_corpus.py:168-202: the parse of the row, the chunk, and the
\* start of add_document.
gem_json ==
    /\ pc = "gem_json"
    /\ \E o \in ParseOutcomes :
         /\ calls' = Append(calls, LogEntry("gem_json", "", o.hasData,
                                            rows[row_i].raw_text, 0, 0))
         /\ IF ~o.hasData
            THEN Rows(row_i + 1)
            ELSE /\ pc' = "list_indexes"
                 /\ stage' = "add"
                 /\ query_text' = chunk_text(o.data)
                 /\ pending' = [id |-> rows[row_i].id,
                                content |-> chunk_text(o.data),
                                indexNone |-> FALSE,
                                hasData |-> TRUE, data |-> o.data,
                                index_name |-> RECRUITMENT_DOCS_INDEX_NAME,
                                metadata |-> NoMetadata]
                 /\ UNCHANGED <<matches, result, row_i>>
    /\ UNCHANGED <<entry, args, store, locals, rows, corpus_records,
                   upserted, attempt>>

\* vectorstore.py:78-81: the wrapper is built before the handle is checked;
\* with no handle add_document returns without an upsert.
PineconeVectorStore ==
    /\ pc = "PineconeVectorStore"
    /\ \E ok \in BOOLEAN :
         /\ Log("PineconeVectorStore", ok)
         /\ IF ~ok THEN AddRaised
            ELSE IF pending.indexNone THEN AddReturned
            ELSE Goto("embed_query")
    /\ UNCHANGED <<entry, args, store, locals, rows, corpus_records,
                   upserted, attempt>>

\* vectorstore.py:87-93: the upsert of (id, embedding, metadata), the
\* metadata holding the content; a failure is caught.
upsert ==
    /\ pc = "upsert"
    /\ \E ok \in BOOLEAN :
         /\ Log("upsert", ok)
         /\ IF ok
            THEN LET old == store.data[index_name]
                     meta == final_metadata(pending.metadata, pending.content)
                     new == [Entry(embed_text(pending.content), TRUE,
                                   meta.hasContent, meta.content)
                                EXCEPT !.tags = meta.tags]
                     key == <<index_name, pending.id>>
                 IN  /\ upserted' =
                            [x \in DOMAIN upserted \cup {key} |->
                                IF x = key
                                THEN [call |-> pending,
                                      replaced |-> key \in DOMAIN upserted]
                                ELSE upserted[x]]
                     /\ store' =
                            [store EXCEPT !.data[index_name] =
                                [x \in DOMAIN old \cup {pending.id} |->
                                    IF x = pending.id THEN new ELSE old[x]]]
                     /\ corpus_records' =
                            IF ~pending.hasData THEN corpus_records
                            ELSE [x \in DOMAIN corpus_records \cup {pending.id} |->
                                     IF x = pending.id THEN pending.data
                                     ELSE corpus_records[x]]
            ELSE UNCHANGED <<store, corpus_records, upserted>>
         /\ AddReturned
    /\ UNCHANGED <<entry, args, locals, rows, attempt>>

\* document_corpus.py:206: time.sleep(1), then the next row.
sleep ==
    /\ pc = "sleep"
    /\ calls' = Append(calls, LogEntry("sleep", "", TRUE, EMPTY, 0, 0))
    /\ Rows(row_i + 1)
    /\ UNCHANGED <<entry, args, store, locals, rows, corpus_records,
                   upserted, attempt>>

(***************************************************************************)
(* add_document and _get_or_create_index called on their own.              *)
(***************************************************************************)
AddIds == {"cand_1", "cand_2"}

AddTexts == {<<"c", "v">>, <<"c", "v", "2">>}

\* metadata: None, a dict of filter tags, a dict that already has a content
\* key.
Metadatas ==
    {NoMetadata,
     [isNone |-> FALSE, tags |-> {"domain"}, hasContent |-> FALSE,
      content |-> EMPTY],
     [isNone |-> FALSE, tags |-> {}, hasContent |-> TRUE,
      content |-> <<"o", "l", "d">>]}

\* vectorstore.py:41-43 and 77-81: with an empty name the handle is None and
\* no call is made to list the indexes.
\* add_document(id, content, metadata, index_name)
add_document ==
    /\ Idle
    /\ \E id \in AddIds, content \in AddTexts, metadata \in Metadatas,
          name \in {RECRUITMENT_DOCS_INDEX_NAME, ""} :
         /\ entry' = "add_document"
         /\ args' = [NoArgs EXCEPT !.id = id, !.content = content,
                                   !.metadata = metadata, !.index_name = name]
         /\ stage' = "add"
         /\ query_text' = content
         /\ pending' = [NoPending EXCEPT !.id = id, !.content = content,
                                         !.metadata = metadata,
                                         !.index_name = name,
                                         !.indexNone = (name = "")]
         /\ pc' = IF name = "" THEN "PineconeVectorStore" ELSE "list_indexes"
    /\ matches' = << >>
    /\ result' = NoResult
    /\ calls' = << >>
    /\ ResetLocals
    /\ UNCHANGED <<store, rows, row_i, corpus_records, upserted, attempt>>

\* _get_or_create_index(name)
get_or_create_index ==
    /\ Idle
    /\ \E name \in IndexNames \cup {""} :
         /\ entry' = "_get_or_create_index"
         /\ args' = [NoArgs EXCEPT !.index_name = name]
         /\ pending' = [NoPending EXCEPT !.index_name = name]
         /\ IF name = ""
            THEN /\ pc' = "done"
                 /\ stage' = "none"
                 /\ result' = [kind |-> "returned", value |-> << >>]
            ELSE /\ pc' = "list_indexes"
                 /\ stage' = "index"
                 /\ result' = NoResult
    /\ query_text' = EMPTY
    /\ matches' = << >>
    /\ calls' = << >>
    /\ ResetLocals
    /\ UNCHANGED <<store, rows, row_i, corpus_records, upserted, attempt>>

(***************************************************************************)
(* cv_parser (cv_parser.py:96-129) and its copy gem_json                   *)
(* (document_corpus.py:105-138): the retry loop, one step for every        *)
(* attempt and for every wait.                                             *)
(***************************************************************************)
max_retries == 3

\* The texts handed to the parser.
CvTexts == {EMPTY, <<"c", "v">>, Repeat("r", 10)}

\* A mutant of should_retry: the last attempt is also followed by a wait.
should_retry_off_by_one(n) == n < max_retries

\* cv_parser.py:123, attempt < max_retries - 1
should_retry(n) == n < max_retries - 1

\* cv_parser.py:124, 2 ** attempt
wait_time(n) == 2 ^ n

\* cv_parser(text) and gem_json(text)
cv_parser ==
    /\ Idle
    /\ \E fn \in {"cv_parser", "gem_json"}, text \in CvTexts :
         /\ entry' = fn
         /\ query_text' = text
    /\ args' = NoArgs
    /\ pc' = "parse_attempt"
    /\ attempt' = 0
    /\ stage' = "none"
    /\ matches' = << >>
    /\ result' = NoResult
    /\ calls' = << >>
    /\ ResetLocals
    /\ UNCHANGED <<store, rows, row_i, pending, corpus_records, upserted>>

\* cv_parser.py:108-129: one pass of the loop up to the return or the wait.
\* Whatever fails inside the try, the call or the reading of its reply, is
\* caught by the except clause.
parse_attempt ==
    /\ pc = "parse_attempt"
    /\ attempt < max_retries
    /\ \E o \in ParseOutcomes :
         /\ calls' = Append(calls, LogEntry("generate_content", "", o.hasData,
                                            query_text, 0, 0))
         /\ IF o.hasData
            THEN Return(<<o.data>>, << >>)
            ELSE IF should_retry(attempt)
            THEN /\ pc' = "parse_sleep"
                 /\ UNCHANGED <<stage, query_text, matches, result, row_i,
                                pending>>
            ELSE Return(<< >>, << >>)
    /\ UNCHANGED <<entry, args, store, locals, rows, corpus_records,
                   upserted, attempt>>

\* cv_parser.py:126 and 107: time.sleep(wait_time), then the next attempt.
parse_sleep ==
    /\ pc = "parse_sleep"
    /\ calls' = Append(calls, LogEntry("sleep", "", TRUE, EMPTY, 0,
                                       wait_time(attempt)))
    /\ attempt' = attempt + 1
    /\ pc' = "parse_attempt"
    /\ UNCHANGED <<stage, query_text, matches, result, row_i, pending>>
    /\ UNCHANGED <<entry, args, store, locals, rows, corpus_records, upserted>>

(***************************************************************************)
(* generate_outreach_email (email_generator.py:12-83): the retry loop, one *)
(* step for every attempt and for every wait.                              *)
(***************************************************************************)
email_max_retries == 3

\* The records of rank_candidates an email is written for: name and summary.
CandidateData ==
    {[name |-> <<"A", "l">>, summary |-> <<"d", "e", "v">>],
     [name |-> <<"B", "o">>, summary |-> FAILED_REVIEW],
     [name |-> UNKNOWN, summary |-> NO_SUMMARY]}

EmailJDs == {EMPTY, <<"j", "d">>, Repeat("j", MinJDLen)}

\* email_generator.py:41-57, the parts of the prompt that vary with the
\* arguments, one to a line; the fixed wording around them is left out.
user_prompt(name, summary, job_description) ==
    join(NEWLINE, <<name, summary, job_description>>)

\* What an attempt (lines 62-73) may do: answer with a text, raise a
\* GoogleAPIError, or raise another exception.
EmailOutcomes ==
    {[error |-> "", text |-> <<" ", "H", "i", " ", "A", "l", "\n">>],
     [error |-> "", text |-> EMPTY],
     [error |-> "GoogleAPIError", text |-> EMPTY],
     [error |-> "Exception", text |-> EMPTY]}

\* A mutant of caught_for_retry: every exception is followed by a wait.
caught_for_retry_any(error) == TRUE

\* email_generator.py:75-81: GoogleAPIError waits and goes on with the loop,
\* any other exception breaks it.
caught_for_retry(error) == error = "GoogleAPIError"

\* generate_outreach_email(job_description, candidate_data)
generate_outreach_email ==
    /\ Idle
    /\ \E job_description \in EmailJDs, candidate_data \in CandidateData :
         /\ args' = [NoArgs EXCEPT !.jd = [isNone |-> FALSE,
                                           text |-> job_description],
                                   !.content = candidate_data.summary]
         /\ query_text' = user_prompt(candidate_data.name,
                                      candidate_data.summary, job_description)
    /\ entry' = "generate_outreach_email"
    /\ pc' = "email_attempt"
    /\ attempt' = 0
    /\ stage' = "none"
    /\ matches' = << >>
    /\ result' = NoResult
    /\ calls' = << >>
    /\ ResetLocals
    /\ UNCHANGED <<store, rows, row_i, pending, corpus_records, upserted>>

\* email_generator.py:60-81: one pass of the loop up to the return, the wait
\* or the break; line 83 follows the break.
email_attempt ==
    /\ pc = "email_attempt"
    /\ attempt < email_max_retries
    /\ \E o \in EmailOutcomes :
         /\ calls' = Append(calls,
                [LogEntry("generate_content", "", o.error = "", query_text, 0, 0)
                    EXCEPT !.reply = o.text, !.error = o.error])
         /\ IF o.error = ""
            THEN Return(strip(o.text), << >>)
            ELSE IF caught_for_retry(o.error)
            THEN /\ pc' = "email_sleep"
                 /\ UNCHANGED <<stage, query_text, matches, result, row_i,
                                pending>>
            ELSE Return(ERROR_EMAIL, << >>)
    /\ UNCHANGED <<entry, args, store, locals, rows, corpus_records,
                   upserted, attempt>>

\* email_generator.py:76-78 and 60: time.sleep(wait_time), then the next
\* attempt, or line 83 when the loop is exhausted.
email_sleep ==
    /\ pc = "email_sleep"
    /\ calls' = Append(calls, LogEntry("sleep", "", TRUE, EMPTY, 0,
                                       wait_time(attempt)))
    /\ attempt' = attempt + 1
    /\ IF attempt + 1 < email_max_retries
       THEN /\ pc' = "email_attempt"
            /\ UNCHANGED <<stage, query_text, matches, result, row_i, pending>>
       ELSE Return(ERROR_EMAIL, << >>)
    /\ UNCHANGED <<entry, args, store, locals, rows, corpus_records, upserted>>

\* The caller has taken the result: only the vector store outlives a call.
next_call ==
    /\ pc = "done"
    /\ pc' = "idle"
    /\ entry' = "none"
    /\ args' = NoArgs
    /\ stage' = "none"
    /\ query_text' = EMPTY
    /\ matches' = << >>
    /\ calls' = << >>
    /\ result' = NoResult
    /\ ResetLocals
    /\ rows' = << >>
    /\ attempt' = 0
    /\ UNCHANGED <<store, row_i, pending, corpus_records, upserted>>

NoRecords == [id \in {} |-> SampleRecord]

NoUpserts == [key \in {} |-> NoPending]

InitCall ==
    /\ pc = "idle"
    /\ entry = "none"
    /\ args = NoArgs
    /\ stage = "none"
    /\ query_text = EMPTY
    /\ matches = << >>
    /\ calls = << >>
    /\ result = NoResult
    /\ query_embedding = NoEmbedding
    /\ scores = << >>
    /\ ranked_candidates = << >>
    /\ rows = << >>
    /\ row_i = 0
    /\ pending = NoPending
    /\ corpus_records = NoRecords
    /\ upserted = NoUpserts
    /\ attempt = 0

(***************************************************************************)
(* Spec: the ranking calls, over every store a call may find.              *)
(***************************************************************************)
Init ==
    /\ InitCall
    /\ store \in RankStores

Next ==
    \/ get_matching_skills
    \/ rank_candidates_db
    \/ rank_candidates_local
    \/ list_indexes
    \/ create_index
    \/ Index
    \/ embed_query
    \/ query
    \/ generate_content
    \/ embed_content
    \/ embed_documents
    \/ extract
    \/ next_call

Spec == Init /\ [][Next]_vars

(***************************************************************************)
(* SpecCorpus: the corpus build followed by database-mode ranking, over a  *)
(* store whose candidate index is written by the build alone.              *)
(***************************************************************************)
CorpusSkillsData ==
    [id \in {"CAN_NLP_LLMS", "CAN_RAG_VECTORS"} |-> SkillsData[id]]

CorpusStores ==
    {[existing |-> {SKILLS_INDEX_NAME} \cup e,
      data |-> [n \in IndexNames |->
                   IF n = SKILLS_INDEX_NAME THEN CorpusSkillsData ELSE NoData]] :
        e \in SUBSET {RECRUITMENT_DOCS_INDEX_NAME}}

InitCorpus ==
    /\ InitCall
    /\ store \in CorpusStores

NextCorpus ==
    \/ build_document_corpus
    \/ gem_json
    \/ PineconeVectorStore
    \/ upsert
    \/ sleep
    \/ rank_candidates_db
    \/ list_indexes
    \/ create_index
    \/ Index
    \/ embed_query
    \/ query
    \/ next_call

SpecCorpus == InitCorpus /\ [][NextCorpus]_vars

(***************************************************************************)
(* SpecStore: add_document and _get_or_create_index called in any order,   *)
(* over a store that starts without indexes.                               *)
(***************************************************************************)
InitStore ==
    /\ InitCall
    /\ store = [existing |-> {}, data |-> [n \in IndexNames |-> NoData]]

NextStore ==
    \/ add_document
    \/ get_or_create_index
    \/ list_indexes
    \/ create_index
    \/ Index
    \/ PineconeVectorStore
    \/ embed_query
    \/ upsert
    \/ next_call

SpecStore == InitStore /\ [][NextStore]_vars

(***************************************************************************)
(* SpecParse: calls of the document parser; the store plays no part.       *)
(***************************************************************************)
NextParse ==
    \/ cv_parser
    \/ parse_attempt
    \/ parse_sleep
    \/ next_call

SpecParse == InitStore /\ [][NextParse]_vars

(***************************************************************************)
(* SpecEmail: calls of the email generator; the store plays no part.       *)
(***************************************************************************)
NextEmail ==
    \/ generate_outreach_email
    \/ email_attempt
    \/ email_sleep
    \/ next_call

SpecEmail == InitStore /\ [][NextEmail]_vars

(***************************************************************************)
(* Properties.                                                             *)
(***************************************************************************)
Returned == pc = "done" /\ result.kind = "returned"

Ranking == entry = "rank_candidates"

LocalMode == Ranking /\ ~args.docsNone

DatabaseMode == Ranking /\ args.docsNone

\* The scores of rs never rise as the rank rises.
ScoreOrder(rs) ==
    \A a, b \in 1..Len(rs) :
        rs[a].rank < rs[b].rank => rs[a].match_score >= rs[b].match_score

\* The candidate index answered in non-increasing score order.
StoreOrdered ==
    \A a, b \in 1..Len(matches) :
        a < b => matches[a].score >= matches[b].score

\* C1: every list rank_candidates returns, in local-documents mode and in
\* database mode, carries the ranks 1, 2, ..., n in output order.
C1_RanksDense ==
    Returned /\ Ranking =>
        \A i \in 1..Len(result.value) : result.value[i].rank = i

\* A local-mode result of two records which the sort has reordered.
C1_Witness ==
    /\ Returned /\ LocalMode
    /\ Len(result.value) = 2
    /\ result.value[1].id = local_doc_id(2)
    /\ result.value[1].rank = 1
    /\ result.value[2].rank = 2

\* C2 as the specification states it: match_score never rises with the rank
\* in any list rank_candidates returns, whatever order the store answers in.
C2_ScoreOrderAnyStore ==
    Returned /\ Ranking => ScoreOrder(result.value)

\* C2, amended: match_score never rises with the rank in every local-mode
\* result, and in every database-mode result whose matches the candidate
\* index returned in non-increasing score order.
C2_ScoreOrder ==
    Returned /\ (LocalMode \/ (DatabaseMode /\ StoreOrdered)) =>
        ScoreOrder(result.value)

\* A database-mode result of two records with different scores, the index
\* having answered with the higher score first.
C2_Witness ==
    /\ Returned /\ DatabaseMode
    /\ Len(result.value) = 2
    /\ matches[1].score > matches[2].score
    /\ result.value[1].match_score > result.value[2].match_score

C4_LocalClamp ==
    Returned /\ LocalMode =>
        \A n \in 1..Len(result.value) :
            \E i \in 1..Len(args.docs) :
                /\ result.value[n].id = local_doc_id(i)
                /\ result.value[n].match_score =
                       (IF scores[i] <= 0 THEN 0
                        ELSE IF scores[i] >= ScoreDen THEN 100 * ScoreDen
                        ELSE 100 * scores[i])
                /\ result.value[n].match_score >= 0
                /\ result.value[n].match_score <= 100 * ScoreDen

\* A local-mode result holding a document of negative raw score, reported
\* as 0, and one of raw score above 1, reported as 100.
C4_Witness ==
    /\ Returned /\ LocalMode
    /\ Len(result.value) = 2
    /\ \E i \in 1..2 : scores[i] < 0
    /\ \E i \in 1..2 : scores[i] > ScoreDen
    /\ result.value[1].match_score = 100 * ScoreDen
    /\ result.value[2].match_score = 0

\* C5 as the specification states it: every match_score rank_candidates
\* reports lies in [0, 100], in local mode and in database mode.
C5_ScaleBothModes ==
    Returned /\ Ranking =>
        \A n \in 1..Len(result.value) :
            /\ result.value[n].match_score >= 0
            /\ result.value[n].match_score <= 100 * ScoreDen

\* C5, amended: a local-mode match_score lies in [0, 100]; a database-mode
\* match_score is 100 times the score the candidate index returned, whatever
\* that score is.
C5_Scale ==
    Returned /\ Ranking =>
        \A n \in 1..Len(result.value) :
            IF LocalMode
            THEN /\ result.value[n].match_score >= 0
                 /\ result.value[n].match_score <= 100 * ScoreDen
            ELSE result.value[n].match_score = 100 * matches[n].score

\* A database-mode result with a match_score above 100 and one below 0.
C5_Witness ==
    /\ Returned /\ DatabaseMode
    /\ \E n \in 1..Len(result.value) :
           result.value[n].match_score > 100 * ScoreDen
    /\ \E n \in 1..Len(result.value) : result.value[n].match_score < 0

\* C6: rank_candidates called with the empty list of documents returns the
\* empty list at once and makes no provider call: no generation, embedding
\* or extraction call and no operation on the vector store.
C6_EmptyDocs ==
    LocalMode /\ args.docs = << >> =>
        /\ pc = "done"
        /\ result = [kind |-> "returned", value |-> << >>]
        /\ calls = << >>

\* A call with the empty list of documents has returned.
C6_Witness ==
    /\ LocalMode
    /\ args.docs = << >>
    /\ Returned
    /\ result.value = << >>

\* A provider call of the running call failed.
CallFailed == \E c \in 1..Len(calls) : ~calls[c].ok

\* C7: every skill get_matching_skills returns is a match the skills index
\* returned, with its score (0 when it carries none), and that score is not
\* below score_threshold.
C7_Threshold ==
    Returned /\ entry = "get_matching_skills" =>
        \A i \in 1..Len(result.value) :
            /\ result.value[i].score * 100 >= args.threshold * ScoreDen
            /\ \E m \in 1..Len(matches) :
                   /\ matches[m].id = result.value[i].id
                   /\ result.value[i].score =
                          (IF matches[m].hasScore THEN matches[m].score ELSE 0)

\* The index returned a skill below the threshold and one at it: only the
\* second is returned.
C7_Witness ==
    /\ Returned /\ entry = "get_matching_skills"
    /\ args.threshold = DefaultThresholdPct
    /\ Len(matches) = 2
    /\ matches[1].hasScore
    /\ matches[1].score * 100 < args.threshold * ScoreDen
    /\ Len(result.value) = 1
    /\ result.value[1].id = matches[2].id

\* A match of the last response has no metadata.
MalformedMatch == \E m \in 1..Len(matches) : ~matches[m].hasMeta

\* C9 as the specification states it: in database mode rank_candidates
\* always returns, and returns the empty list whenever a provider call
\* failed or a returned match lacks metadata or content.
C9_NoUnhandledFault ==
    DatabaseMode /\ pc = "done" =>
        /\ result.kind = "returned"
        /\ (CallFailed \/ MalformedMatch) => result.value = << >>

\* C10: get_matching_skills always returns, never raises, and returns the
\* empty list whenever a call to the store or the embedding model failed or
\* a match of the response has no metadata.
C10_DegradeToEmpty ==
    entry = "get_matching_skills" /\ pc = "done" =>
        /\ result.kind = "returned"
        /\ (CallFailed \/ MalformedMatch) => result.value = << >>

\* The index returned a skill above the threshold and a match without
\* metadata: the exception of the second empties the result.
C10_Witness ==
    /\ Returned /\ entry = "get_matching_skills"
    /\ Len(matches) = 2
    /\ matches[1].hasMeta /\ matches[1].hasScore
    /\ matches[1].score * 100 >= args.threshold * ScoreDen
    /\ ~matches[2].hasMeta
    /\ result.value = << >>

\* The record the corpus build wrote for the n-th record of the result.
Written(n) == corpus_records[result.value[n].id]

NoNewline(name) == \A i \in 1..Len(name) : name[i] # "\n"

\* name has no blank at either end and does not hold the field header.
PlainName(name) ==
    /\ name # EMPTY => name[1] \notin Whitespace /\ name[Len(name)] \notin Whitespace
    /\ \A i \in 1..Len(name) :
           i + Len(MARKER) - 1 <= Len(name)
               => SubSeq(name, i, i + Len(MARKER) - 1) # MARKER

\* C8 as the specification states it: the name rank_candidates reads from a
\* chunk the corpus build stored is the Name of the record the chunk was
\* built from, for every Name without a newline.
C8_RoundTripAnyName ==
    Returned /\ DatabaseMode =>
        \A n \in 1..Len(result.value) :
            Written(n).hasName /\ NoNewline(Written(n).Name)
                => result.value[n].name = Written(n).Name

\* C8, amended: for every Name without a newline the name read back is the
\* Name with every "CANDIDATE: " in it removed and the blanks at its ends
\* stripped; it is the Name itself when the Name has no blank at either end
\* and does not hold "CANDIDATE: ".
C8_RoundTrip ==
    Returned /\ DatabaseMode =>
        \A n \in 1..Len(result.value) :
            Written(n).hasName /\ NoNewline(Written(n).Name) =>
                /\ result.value[n].name =
                       strip(replace(Written(n).Name, MARKER, EMPTY))
                /\ PlainName(Written(n).Name)
                       => result.value[n].name = Written(n).Name

\* The result holds a candidate stored under a plain name, read back as it
\* was, and one stored under a name with a leading blank, read back without
\* the blank.
C8_Witness ==
    /\ Returned /\ DatabaseMode
    /\ \E n \in 1..Len(result.value) :
           /\ Written(n).Name = <<"A", "l">>
           /\ result.value[n].name = <<"A", "l">>
    /\ \E n \in 1..Len(result.value) :
           /\ Written(n).Name = <<" ", "A", "l">>
           /\ result.value[n].name = <<"A", "l">>

\* C11: get_matching_skills called with a job description that is missing,
\* empty or shorter than 20 characters returns the empty list at once: no
\* embedding call and no listing, creation or query of the skills index.
C11_FailFast ==
    entry = "get_matching_skills"
        /\ (args.jd.isNone \/ Len(args.jd.text) < 20) =>
        /\ pc = "done"
        /\ result = [kind |-> "returned", value |-> << >>]
        /\ calls = << >>

\* A direct call with a job description of 19 characters has returned.
C11_Witness ==
    /\ entry = "get_matching_skills"
    /\ ~args.jd.isNone
    /\ Len(args.jd.text) = 19
    /\ Returned
    /\ calls = << >>

\* The generation call, the query embedding or the batch embedding of the
\* running call failed.
StageFailed ==
    \E c \in 1..Len(calls) :
        /\ calls[c].op \in {"generate_content", "embed_content"}
        /\ ~calls[c].ok

\* C12 as the specification states it: a local-mode call whose generation
\* call, query embedding or batch embedding failed returns the empty list;
\* no exception reaches the caller.
C12_LocalDegrades ==
    LocalMode /\ pc = "done" /\ StageFailed =>
        result = [kind |-> "returned", value |-> << >>]

\* C13 as the specification states it, read in its weakest form: when no
\* provider call fails, a rank_candidates call whose job description is
\* missing, empty or shorter than 20 characters returns the empty list, in
\* database mode and in local mode alike.
C13_ShortJobDescription ==
    Ranking /\ pc = "done" /\ ~CallFailed
        /\ (args.jd.isNone \/ Len(args.jd.text) < 20) =>
        result = [kind |-> "returned", value |-> << >>]

\* C14: in local mode, once the query and the documents are embedded, the
\* call returns whatever extraction calls raise or come back without the
\* delimiter: every document has had its extraction call, the records
\* returned are min(k, n) records of distinct documents, and each carries the
\* id and the clamped score of its own document, with the placeholder
\* summary when its extraction raised.
C14_BatchSurvives ==
    LocalMode /\ pc = "done" /\ ~StageFailed /\ args.docs # << >> =>
        /\ Returned
        /\ Len(calls) = 3 + Len(args.docs)
        /\ Len(result.value) = Min(args.k, Len(args.docs))
        /\ \A a, b \in 1..Len(result.value) :
               a # b => result.value[a].id # result.value[b].id
        /\ \A n \in 1..Len(result.value) :
               \E i \in 1..Len(args.docs) :
                   /\ result.value[n].id = local_doc_id(i)
                   /\ result.value[n].match_score =
                          (IF scores[i] <= 0 THEN 0
                           ELSE IF scores[i] >= ScoreDen THEN 100 * ScoreDen
                           ELSE 100 * scores[i])
                   /\ ~calls[3 + i].ok
                          => result.value[n].summary = FAILED_HEURISTIC

\* Two documents, both returned: the extraction of one raised, that of the
\* other came back without the delimiter, and both keep a positive score.
C14_Witness ==
    /\ Returned /\ LocalMode
    /\ Len(result.value) = 2
    /\ \E n \in 1..2 : /\ result.value[n].summary = FAILED_HEURISTIC
                       /\ result.value[n].match_score > 0
    /\ \E n \in 1..2 : /\ result.value[n].summary = FAILED_REVIEW
                       /\ result.value[n].match_score > 0

\* C15 as the specification states it: no step of a rank_candidates call, in
\* either mode, changes the vector store: the existing indexes and the
\* vectors of each stay as they were when the call began.
C15_StoreUnchanged ==
    [][(entry = "rank_candidates" \/ entry' = "rank_candidates")
           => store' = store]_vars

LocalOps == {"generate_content", "embed_content", "extract_name_and_summary"}

StoreOps == {"list_indexes", "create_index", "Index", "embed_query", "query"}

\* C16: a rank_candidates call given a list of documents, empty or not,
\* makes only generation, embedding and extraction calls, none of them on an
\* index of the vector store, and never enters the Skill Matcher; a call
\* given no list makes only Skill Matcher and index retrieval calls, no
\* query-synthesis and no extraction call.
C16_ModesExclusive ==
    /\ LocalMode =>
         /\ stage = "none"
         /\ \A c \in 1..Len(calls) :
                calls[c].op \in LocalOps /\ calls[c].index = ""
    /\ DatabaseMode =>
         /\ \A c \in 1..Len(calls) :
                /\ calls[c].op \in StoreOps
                /\ calls[c].index \in IndexNames
         /\ query_embedding = NoEmbedding /\ scores = << >>
         /\ ranked_candidates = << >>

\* A local-mode call has returned a record, with both indexes in the store,
\* after its generation, embedding and extraction calls.
C16_Witness ==
    /\ Returned /\ LocalMode
    /\ store.existing = IndexNames
    /\ Len(result.value) >= 1
    /\ Len(calls) >= 4

\* C17: after any sequence of add_document calls every index holds exactly
\* one entry for each id that was upserted into it, and that entry carries
\* the vector of the text of the latest successful call for the id, the tags
\* of that call's metadata, and a content key equal to the embedded text.
C17_UpsertIdempotent ==
    \A n \in IndexNames :
        /\ DOMAIN store.data[n] = {id \in AddIds : <<n, id>> \in DOMAIN upserted}
        /\ \A id \in DOMAIN store.data[n] :
               LET e == store.data[n][id]
                   last == upserted[<<n, id>>].call
               IN  /\ e.hasMeta /\ e.hasContent
                   /\ e.content = last.content
                   /\ e.vector = embed_text(last.content)
                   /\ e.tags = (IF last.metadata.isNone THEN {}
                                ELSE last.metadata.tags)

\* An add_document call whose metadata already had a content key has
\* returned after replacing the entry of its id: the entry holds the text of
\* this call.
C17_Witness ==
    /\ Returned /\ entry = "add_document"
    /\ args.index_name = RECRUITMENT_DOCS_INDEX_NAME
    /\ args.metadata.hasContent
    /\ calls # << >> /\ calls[Len(calls)].op = "upsert" /\ calls[Len(calls)].ok
    /\ upserted[<<args.index_name, args.id>>].replaced
    /\ store.data[args.index_name][args.id].content = args.content

\* C18: in every step of every sequence of calls, create_index is issued for
\* a name only when the name is not among the existing indexes, a successful
\* creation adds the name, no index is ever removed, a call of
\* _get_or_create_index for an existing name leaves the store as it is, and
\* the handle such a call returns is that of the named, existing index.
C18_CreateIdempotent ==
    [][LET issued == /\ Len(calls') = Len(calls) + 1
                     /\ calls'[Len(calls')].op = "create_index"
       IN  /\ issued => calls'[Len(calls')].index \notin store.existing
           /\ issued /\ calls'[Len(calls')].ok
                  => calls'[Len(calls')].index \in store'.existing
           /\ store.existing \subseteq store'.existing
           /\ entry = "_get_or_create_index"
                  /\ args.index_name \in store.existing
                  => store' = store
           /\ entry' = "_get_or_create_index" /\ pc' = "done"
                  /\ result'.kind = "returned" /\ result'.value # << >>
                  => /\ result'.value = <<args'.index_name>>
                     /\ args'.index_name \in store'.existing
      ]_vars

\* A call of _get_or_create_index has returned the handle of an index that
\* an earlier call created: it listed the indexes and made no create_index.
C18_Witness ==
    /\ Returned /\ entry = "_get_or_create_index"
    /\ result.value = <<args.index_name>>
    /\ args.index_name \in store.existing
    /\ Len(calls) = 2
    /\ calls[1].op = "list_indexes" /\ calls[2].op = "Index"

Parsing == entry \in {"cv_parser", "gem_json"}

\* C19: a call of the document parser makes at most 3 attempts; an attempt
\* that succeeds is the last call made and its record is returned; a failed
\* first attempt is followed by a wait of 1 s and a failed second attempt by
\* a wait of 2 s; after the third failure None is returned at once, with no
\* further wait, and nothing is raised.
C19_RetryLoop ==
    Parsing =>
        /\ Len(calls) <= 5
        /\ \A c \in 1..Len(calls) :
               /\ c % 2 = 1 => calls[c].op = "generate_content"
               /\ c % 2 = 0 => calls[c].op = "sleep" /\ ~calls[c - 1].ok
               /\ c = 2 => calls[c].count = 1
               /\ c = 4 => calls[c].count = 2
               /\ calls[c].op = "generate_content" /\ calls[c].ok
                      => c = Len(calls)
        /\ pc = "done" =>
               /\ result.kind = "returned"
               /\ calls # << >>
               /\ calls[Len(calls)].op = "generate_content"
               /\ IF calls[Len(calls)].ok
                  THEN Len(result.value) = 1
                  ELSE Len(calls) = 5 /\ result.value = << >>

\* Three attempts failed: None is returned after waits of 1 s and 2 s.
C19_Witness ==
    /\ Parsing /\ Returned
    /\ result.value = << >>
    /\ Len(calls) = 5
    /\ ~calls[1].ok /\ ~calls[3].ok /\ ~calls[5].ok
    /\ calls[2].count = 1 /\ calls[4].count = 2

\* The score get_matching_skills reads from the m-th match of the response.
ScoreOf(m) == IF matches[m].hasScore THEN matches[m].score ELSE 0

\* The positions of the matches whose score is not below the threshold.
Qualifying ==
    {m \in 1..Len(matches) : ScoreOf(m) * 100 >= args.threshold * ScoreDen}

\* The position in the response of the i-th qualifying match.
QualifyingAt(i) ==
    CHOOSE m \in Qualifying : Cardinality({x \in Qualifying : x <= m}) = i

\* The result is the qualifying matches, in the order of the response, each
\* with its id, score and content.
IsFilteredResponse ==
    /\ Len(result.value) = Cardinality(Qualifying)
    /\ \A i \in 1..Len(result.value) :
           LET m == QualifyingAt(i)
           IN  /\ result.value[i].id = matches[m].id
               /\ result.value[i].score = ScoreOf(m)
               /\ result.value[i].hasContent = matches[m].hasContent
               /\ result.value[i].content = matches[m].content

\* C20 as the specification states it: whatever matches the skills index
\* returns, the result of get_matching_skills is exactly the qualifying
\* matches in the index's order.
C20_FilterAnyResponse ==
    Returned /\ entry = "get_matching_skills" => IsFilteredResponse

\* C20, amended: when every match of the response has metadata, the result
\* is exactly the qualifying matches in the index's order, each with its id,
\* score and content; when some match has no metadata the result is empty.
C20_Filter ==
    Returned /\ entry = "get_matching_skills" =>
        IF MalformedMatch THEN result.value = << >> ELSE IsFilteredResponse

\* The index returned two qualifying skills, the lower score first: both are
\* returned, in that order.
C20_Witness ==
    /\ Returned /\ entry = "get_matching_skills"
    /\ Len(matches) = 2
    /\ matches[1].hasScore /\ matches[2].hasScore
    /\ matches[1].score < matches[2].score
    /\ Len(result.value) = 2
    /\ result.value[1].id = matches[1].id
    /\ result.value[2].id = matches[2].id

\* The queries of the running call on the candidate index.
DocsQueries ==
    {c \in 1..Len(calls) : /\ calls[c].op = "query"
                           /\ calls[c].index = RECRUITMENT_DOCS_INDEX_NAME}

\* The calls of the running call that address the candidate index.
DocsCalls ==
    {c \in 1..Len(calls) : calls[c].index = RECRUITMENT_DOCS_INDEX_NAME}

\* C21: in database mode the candidate index is queried at most once; it is
\* addressed only after the query of the skills index answered, and only
\* with a response holding a match at or above the threshold (while the
\* candidate index is addressed, matches is still that response); a call
\* that returns without having addressed the candidate index, because the
\* Skill Matcher returned no skill, returns the empty list.
C21_SkillsGate ==
    DatabaseMode =>
        /\ Cardinality(DocsQueries) <= 1
        /\ \A j \in DocsCalls :
               \E i \in 1..(j - 1) : /\ calls[i].op = "query"
                                     /\ calls[i].index = SKILLS_INDEX_NAME
                                     /\ calls[i].ok
        /\ stage = "docs" => Qualifying # {} /\ ~MalformedMatch
        /\ Returned /\ DocsCalls = {} => result.value = << >>

\* The query of the skills index answered and the Skill Matcher returned no
\* skill: the call returned the empty list after that query, with no call
\* on the candidate index.
C21_Witness ==
    /\ DatabaseMode /\ Returned
    /\ Len(calls) >= 1
    /\ calls[Len(calls)].op = "query" /\ calls[Len(calls)].ok
    /\ calls[Len(calls)].index = SKILLS_INDEX_NAME
    /\ DocsCalls = {}
    /\ result.value = << >>

\* The matches of the skills response that rank_candidates keeps: those
\* whose score is not below 0.70, in the order of the response.
KeptSkills ==
    LET kept == {m \in 1..Len(matches) :
                    ScoreOf(m) * 100 >= RankerThresholdPct * ScoreDen}
    IN  [i \in 1..Cardinality(kept) |->
            matches[CHOOSE m \in kept :
                        Cardinality({x \in kept : x <= m}) = i]]

\* The position in the joined text before the content of the i-th kept skill.
RECURSIVE OffsetOf(_)
OffsetOf(i) ==
    IF i = 1 THEN 0 ELSE OffsetOf(i - 1) + Len(KeptSkills[i - 1].content) + 1

\* text is the contents of the kept skills, in their order, with one space
\* between two neighbours and nothing else.
IsSkillTarget(text) ==
    LET n == Len(KeptSkills)
    IN  /\ n >= 1
        /\ Len(text) = OffsetOf(n) + Len(KeptSkills[n].content)
        /\ \A i \in 1..n :
               /\ SubSeq(text, OffsetOf(i) + 1,
                         OffsetOf(i) + Len(KeptSkills[i].content))
                      = KeptSkills[i].content
               /\ i > 1 => text[OffsetOf(i)] = " "

\* C22: every call a database-mode ranking makes on the skills index carries
\* the job description and k = 15, whatever k the caller passed; every call
\* it makes on the candidate index carries the caller's k and the contents
\* of the skills at or above 0.70 of the skills response, in the order of
\* the response, joined by single spaces.
C22_SkillTarget ==
    [][DatabaseMode /\ Len(calls') = Len(calls) + 1 =>
           LET c == calls'[Len(calls')]
           IN  IF c.index = SKILLS_INDEX_NAME
               THEN /\ stage = "skills"
                    /\ c.top_k = 15
                    /\ c.text = args.jd.text
               ELSE /\ stage = "docs"
                    /\ c.index = RECRUITMENT_DOCS_INDEX_NAME
                    /\ c.top_k = args.k
                    /\ IsSkillTarget(c.text)]_vars

\* A call with k = 1 asked the skills index for 15 matches and queried the
\* candidate index for 1 match with the contents of two skills, in the order
\* the skills index returned them.
C22_Witness ==
    /\ DatabaseMode /\ pc = "done"
    /\ args.k = 1
    /\ Len(calls) >= 1
    /\ calls[1].index = SKILLS_INDEX_NAME /\ calls[1].top_k = 15
    /\ \E c \in DocsQueries :
           /\ calls[c].top_k = 1
           /\ calls[c].text = <<"r", "a", "g", " ", "n", "l", "p">>

\* The query of the candidate index answered: matches is its response.
DocsAnswered == \E c \in DocsQueries : calls[c].ok

\* The i-th record is the image of the i-th match: its rank, id and score
\* times 100.
ImageOf(i) ==
    /\ result.value[i].rank = i
    /\ result.value[i].id = matches[i].id
    /\ result.value[i].match_score = 100 * matches[i].score

\* C23 as the specification states it: in database mode the i-th record is
\* the image of the i-th match of the candidate index, and its summary is
\* the content of the match's metadata.
C23_ImageWithContent ==
    DatabaseMode /\ Returned /\ DocsAnswered =>
        /\ Len(result.value) = Len(matches)
        /\ \A i \in 1..Len(matches) :
               /\ ImageOf(i)
               /\ matches[i].hasContent
               /\ result.value[i].summary = matches[i].content

\* C23, amended: whenever a database-mode call returns after the candidate
\* index answered, the result has one record for each match, in the order of
\* the response: the i-th record has rank i, the id of the i-th match, its
\* score times 100 unclamped, and as summary the content of its metadata, or
\* the text "No summary defined." when the metadata has no content.
C23_Image ==
    DatabaseMode /\ Returned /\ DocsAnswered =>
        /\ Len(result.value) = Len(matches)
        /\ \A i \in 1..Len(matches) :
               /\ ImageOf(i)
               /\ result.value[i].summary =
                      (IF matches[i].hasContent THEN matches[i].content
                       ELSE NO_SUMMARY)

\* The candidate index answered with a negative score before a score above
\* 1, the second match without content: both records are returned in that
\* order, unclamped.
C23_Witness ==
    /\ DatabaseMode /\ Returned /\ DocsAnswered
    /\ Len(matches) = 2
    /\ matches[1].score < 0 /\ matches[2].score > ScoreDen
    /\ ~matches[2].hasContent
    /\ Len(result.value) = 2
    /\ result.value[1].match_score < 0
    /\ result.value[2].match_score > 100 * ScoreDen
    /\ result.value[2].summary = NO_SUMMARY

\* The positions of text at which a line that starts with the marker begins.
MarkerStarts(text) ==
    {p \in 1..Len(text) :
        /\ p = 1 \/ text[p - 1] = "\n"
        /\ startswith(SubSeq(text, p, Len(text)), MARKER)}

\* The first line of text that starts with the marker, without its newline.
FirstMarkerLine(text) ==
    LET p == CHOOSE s \in MarkerStarts(text) :
                 \A t \in MarkerStarts(text) : s <= t
        ends == {q \in p..Len(text) : text[q] = "\n"}
        q == IF ends = {} THEN Len(text) + 1
             ELSE CHOOSE e \in ends : \A f \in ends : e <= f
    IN  SubSeq(text, p, q - 1)

\* The i-th match has no content, or no line of it starts with the marker.
NoNameLine(i) ==
    ~matches[i].hasContent \/ MarkerStarts(matches[i].content) = {}

\* C24 as the specification states it: the name is the first line that
\* starts with "CANDIDATE: ", without that leading marker and stripped, and
\* "Unknown" when there is no such line or no content.
C24_MarkerPrefixRemoved ==
    DatabaseMode /\ Returned /\ DocsAnswered =>
        \A i \in 1..Len(result.value) :
            result.value[i].name =
                (IF NoNameLine(i) THEN UNKNOWN
                 ELSE LET line == FirstMarkerLine(matches[i].content)
                      IN  strip(SubSeq(line, Len(MARKER) + 1, Len(line))))

\* C24, amended: the name is the first line that starts with "CANDIDATE: ",
\* with every "CANDIDATE: " in that line removed, the one at its start and
\* any later one, and then stripped; it is "Unknown" when no line starts
\* with the marker or the match has no content.
C24_Name ==
    DatabaseMode /\ Returned /\ DocsAnswered =>
        \A i \in 1..Len(result.value) :
            result.value[i].name =
                (IF NoNameLine(i) THEN UNKNOWN
                 ELSE strip(replace(FirstMarkerLine(matches[i].content),
                                    MARKER, EMPTY)))

\* The result holds the document of several marker lines, named after its
\* second line, which is the first to start with the marker, and a document
\* without content, named "Unknown".
C24_Witness ==
    /\ DatabaseMode /\ Returned /\ DocsAnswered
    /\ Len(result.value) = 2
    /\ matches[1].content = MarkerLines
    /\ result.value[1].name = <<"B", "o">>
    /\ ~matches[2].hasContent
    /\ result.value[2].name = UNKNOWN

\* The match_score of the document at input position i: its raw score times
\* 100, clamped to 0..100.
ClampedScore(i) ==
    IF scores[i] <= 0 THEN 0
    ELSE IF scores[i] >= ScoreDen THEN 100 * ScoreDen
    ELSE 100 * scores[i]

\* The record of the document at input position i is in the result.
Kept(i) == \E n \in 1..Len(result.value) : result.value[n].id = local_doc_id(i)

\* C25: in local mode, of two documents with equal match_score the one that
\* came earlier in candidate_docs has the smaller rank, and the cut to k
\* never keeps the later one without the earlier one.
C25_StableTies ==
    LocalMode /\ Returned =>
        \A i, j \in 1..Len(args.docs) :
            i < j /\ ClampedScore(i) = ClampedScore(j) =>
                /\ Kept(j) => Kept(i)
                /\ \A a, b \in 1..Len(result.value) :
                       /\ result.value[a].id = local_doc_id(i)
                       /\ result.value[b].id = local_doc_id(j)
                       => result.value[a].rank < result.value[b].rank

\* Two documents whose raw scores, 1.0 and then 2.0, are both clamped to 100,
\* with k = 1: the first document is the one returned.
C25_Witness ==
    /\ LocalMode /\ Returned
    /\ args.k = 1
    /\ Len(args.docs) = 2
    /\ scores[1] = ScoreDen /\ scores[2] = 2 * ScoreDen
    /\ Len(result.value) = 1
    /\ result.value[1].id = local_doc_id(1)
    /\ result.value[1].match_score = 100 * ScoreDen

\* The extraction call of the document at input position i.
ExtractionCall(i) == calls[3 + i]

\* The positions of text at which the delimiter begins.
DelimiterAt(text) ==
    {p \in 1..Len(text) : startswith(SubSeq(text, p, Len(text)), DELIMITER)}

\* The reply to the extraction call of document i came and holds the
\* delimiter.
Delimited(i) ==
    ExtractionCall(i).ok /\ DelimiterAt(ExtractionCall(i).reply) # {}

\* The text of the reply before its first delimiter.
BeforeDelimiter(text) ==
    LET first == CHOOSE p \in DelimiterAt(text) :
                     \A r \in DelimiterAt(text) : p <= r
    IN  SubSeq(text, 1, first - 1)

\* The text of the reply between its first delimiter and its second, or
\* its end when there is one delimiter.
AfterDelimiter(text) ==
    LET first == CHOOSE p \in DelimiterAt(text) :
                     \A r \in DelimiterAt(text) : p <= r
        later == {p \in DelimiterAt(text) : p >= first + Len(DELIMITER)}
        stop == IF later = {} THEN Len(text) + 1
                ELSE CHOOSE p \in later : \A r \in later : p <= r
    IN  SubSeq(text, first + Len(DELIMITER), stop - 1)

\* The stripped first line of document i, or "Candidate <doc_id>" when the
\* document is empty.
FallbackName(i) ==
    LET doc == args.docs[i]
        ends == {q \in 1..Len(doc) : doc[q] = "\n"}
        stop == IF ends = {} THEN Len(doc) + 1
                ELSE CHOOSE e \in ends : \A f \in ends : e <= f
    IN  IF doc = EMPTY THEN CANDIDATE_SP \o LOCAL_DOC \o <<DIGITS[i]>>
        ELSE strip(SubSeq(doc, 1, stop - 1))

\* The name and the summary of a record are those the specification states
\* for a reply with the delimiter, and the fallback name for any other
\* outcome.
NameAsStated(r, i) ==
    IF Delimited(i)
    THEN /\ r.name = strip(BeforeDelimiter(ExtractionCall(i).reply))
         /\ r.summary = strip(AfterDelimiter(ExtractionCall(i).reply))
    ELSE r.name = FallbackName(i)

\* C26 as the specification states it: every extraction yields a pair, and
\* every extraction whose reply lacks the delimiter or whose call raised
\* yields the same placeholder summary.
C26_OnePlaceholder ==
    LocalMode /\ pc = "done" /\ ~StageFailed /\ args.docs # << >> =>
        /\ Returned
        /\ \A n \in 1..Len(result.value) : \A i \in 1..Len(args.docs) :
               result.value[n].id = local_doc_id(i)
                   => NameAsStated(result.value[n], i)
        /\ \A a, b \in 1..Len(result.value) :
               \A i, j \in 1..Len(args.docs) :
                   /\ result.value[a].id = local_doc_id(i)
                   /\ result.value[b].id = local_doc_id(j)
                   /\ ~Delimited(i) /\ ~Delimited(j)
                   => result.value[a].summary = result.value[b].summary

\* C26, amended: no outcome of an extraction call makes the ranking raise;
\* for a reply with the delimiter the name is the stripped text before the
\* first delimiter and the summary the stripped text between the first and
\* the second delimiter (the end of the reply when there is one); otherwise
\* the name is the stripped first line of the document, or "Candidate
\* <doc_id>" for an empty document, and the summary is "LLM extraction
\* failed. Please review the full document." when the reply lacks the
\* delimiter and "LLM extraction failed. Using heuristic fallback." when the
\* call raised.
C26_Extraction ==
    LocalMode /\ pc = "done" /\ ~StageFailed /\ args.docs # << >> =>
        /\ Returned
        /\ \A n \in 1..Len(result.value) : \A i \in 1..Len(args.docs) :
               result.value[n].id = local_doc_id(i) =>
                   /\ NameAsStated(result.value[n], i)
                   /\ ~Delimited(i) =>
                          result.value[n].summary =
                              (IF ExtractionCall(i).ok THEN FAILED_REVIEW
                               ELSE FAILED_HEURISTIC)

\* A result of two records: an empty document whose extraction raised, named
\* after its id, and a document whose reply held two delimiters, named and
\* summarised by the first two parts of the reply.
C26_Witness ==
    /\ LocalMode /\ Returned
    /\ Len(result.value) = 2
    /\ \E n \in 1..2 :
           /\ result.value[n].id = local_doc_id(1)
           /\ args.docs[1] = EMPTY
           /\ ~ExtractionCall(1).ok
           /\ result.value[n].name = CANDIDATE_SP \o local_doc_id(1)
           /\ result.value[n].summary = FAILED_HEURISTIC
    /\ \E n \in 1..2 :
           /\ result.value[n].id = local_doc_id(2)
           /\ Cardinality(DelimiterAt(ExtractionCall(2).reply)) = 2
           /\ result.value[n].name = <<"B">>
           /\ result.value[n].summary = <<"q", "a">>

\* The c-th provider call a local-mode ranking of n documents is to make.
ExpectedCall(c) ==
    /\ c = 1 => /\ calls[c].op = "generate_content"
                /\ calls[c].text = args.jd.text
    /\ c = 2 => /\ calls[c].op = "embed_content"
                /\ calls[c].count = 1
    /\ c = 3 => /\ calls[c].op = "embed_content"
                /\ calls[c].count = Len(args.docs)
    /\ c > 3 => /\ calls[c].op = "extract_name_and_summary"
                /\ calls[c].text = args.docs[c - 3]

\* C27: the provider calls of a local-mode ranking of n >= 1 documents are,
\* in this order, one generation call for the query, one embedding call for
\* the query, one embedding call carrying all n documents and one extraction
\* call for each document in input order; a ranking that returns has made
\* all 3 + n of them, whatever k is.
C27_CallSequence ==
    LocalMode /\ args.docs # << >> =>
        /\ Len(calls) <= 3 + Len(args.docs)
        /\ \A c \in 1..Len(calls) : ExpectedCall(c)
        /\ Returned => Len(calls) = 3 + Len(args.docs)

\* A ranking of two different documents with k = 1 returned one record after
\* five calls.
C27_Witness ==
    /\ LocalMode /\ Returned
    /\ args.k = 1
    /\ Len(args.docs) = 2 /\ args.docs[1] # args.docs[2]
    /\ Len(calls) = 5
    /\ calls[3].count = 2
    /\ Len(result.value) = 1

Building == entry = "build_document_corpus"

\* The calls of gem_json in the log of the running build.
ParseCalls == {c \in 1..Len(calls) : calls[c].op = "gem_json"}

\* The positions of the rows whose text has 10 characters or more.
LongRows == {j \in 1..Len(rows) : Len(rows[j].raw_text) >= 10}

\* The n-th of them.
LongRow(n) ==
    CHOOSE j \in LongRows : Cardinality({m \in LongRows : m <= j}) = n

\* The latest call of gem_json before the c-th call of the log.
ParseBefore(c) ==
    CHOOSE p \in ParseCalls : p < c /\ \A r \in ParseCalls : r < c => r <= p

\* The rows are parsed one at a time in the order of the file, the short
\* ones left out; a row is upserted only after its own parse succeeded, at
\* most once and under its own id; no row stops the build.
RowsInOrder ==
    Building =>
        /\ pc = "gem_json" => row_i = LongRow(Cardinality(ParseCalls) + 1)
        /\ pc \notin {"gem_json", "done"} =>
               /\ row_i = LongRow(Cardinality(ParseCalls))
               /\ pending.id = rows[row_i].id
        /\ pc = "done" => /\ result.kind = "returned"
                          /\ Cardinality(ParseCalls) = Cardinality(LongRows)
        /\ \A c \in 1..Len(calls) :
               calls[c].op = "upsert" =>
                   /\ \E p \in ParseCalls : p < c
                   /\ calls[ParseBefore(c)].ok
                   /\ \A d \in (ParseBefore(c) + 1)..(c - 1) :
                          calls[d].op # "upsert"

\* The delay of the row before has been taken when the parse of a row
\* starts.
DelayBetweenRows ==
    Building =>
        \A c \in ParseCalls :
            (\E p \in ParseCalls : p < c) /\ calls[ParseBefore(c)].ok
                => calls[c - 1].op = "sleep"

\* C28 as the specification states it: the build takes the rows one at a
\* time and in order, for each row the parse, then at most one upsert under
\* the id of the row, then the fixed delay before the next row starts; a
\* short row or a failed parse causes no upsert and does not stop the build.
C28_RowByRow == RowsInOrder /\ DelayBetweenRows

Emailing == entry = "generate_outreach_email"

\* The number of generation attempts among the first c calls of the log.
AttemptsUpTo(c) ==
    Cardinality({d \in 1..c : calls[d].op = "generate_content"})

\* The c-th call is the last of the log and the call returned value.
EndsWith(c, value) ==
    /\ c = Len(calls)
    /\ pc = "done"
    /\ result = [kind |-> "returned", value |-> value]

\* C29: generate_outreach_email makes at most 3 generation attempts and
\* never raises.  An attempt that answers ends the call with the stripped
\* text.  A GoogleAPIError on the 0-based attempt i is followed by a wait of
\* 2^i seconds, and then by attempt i + 1 when i < 2 and by the return of
\* the fixed error string when i = 2.  Any other exception ends the call at
\* once with the fixed error string.  Until the call has returned a step is
\* always possible.
C29_EmailRetry ==
    Emailing =>
        /\ AttemptsUpTo(Len(calls)) <= 3
        /\ Len(calls) <= 6
        /\ pc = "done" => result.kind = "returned"
        /\ pc # "done" => ENABLED (email_attempt \/ email_sleep)
        /\ \A c \in 1..Len(calls) :
               LET i == AttemptsUpTo(c) - 1
               IN  /\ calls[c].op = "generate_content" /\ calls[c].ok
                       => EndsWith(c, strip(calls[c].reply))
                   /\ calls[c].op = "generate_content"
                         /\ calls[c].error = "GoogleAPIError"
                       => IF c = Len(calls) THEN pc = "email_sleep"
                          ELSE /\ calls[c + 1].op = "sleep"
                               /\ calls[c + 1].count = 2 ^ i
                   /\ calls[c].op = "generate_content"
                         /\ calls[c].error \notin {"", "GoogleAPIError"}
                       => EndsWith(c, ERROR_EMAIL)
                   /\ calls[c].op = "sleep"
                       => IF i < 2
                          THEN IF c = Len(calls) THEN pc = "email_attempt"
                               ELSE calls[c + 1].op = "generate_content"
                          ELSE EndsWith(c, ERROR_EMAIL)

\* Two attempts raised GoogleAPIError and were followed by waits of 1 and 2
\* seconds; the third answered, and its text is returned without the blanks
\* around it.
C29_Witness ==
    /\ Emailing /\ Returned
    /\ Len(calls) = 5
    /\ calls[1].error = "GoogleAPIError" /\ calls[2].count = 1
    /\ calls[3].error = "GoogleAPIError" /\ calls[4].count = 2
    /\ calls[5].ok
    /\ calls[5].reply = <<" ", "H", "i", " ", "A", "l", "\n">>
    /\ result.value = <<"H", "i", " ", "A", "l">>

\* The id of the document at the 1-based input position i.
IdOf(i) == LOCAL_DOC \o <<DIGITS[i]>>

\* What the extraction call of document i was answered, as the log has it.
OutcomeOf(i) ==
    [raised |-> ~ExtractionCall(i).ok, text |-> ExtractionCall(i).reply]

\* C30: in local mode the ids of a result are pairwise distinct, and the
\* record with the id local-doc-<i> carries the clamped score of the i-th
\* document supplied and the name and summary extracted from that document.
C30_Identity ==
    LocalMode /\ Returned =>
        /\ \A a, b \in 1..Len(result.value) :
               a # b => result.value[a].id # result.value[b].id
        /\ \A n \in 1..Len(result.value) :
               \E i \in 1..Len(args.docs) :
                   /\ result.value[n].id = IdOf(i)
                   /\ result.value[n].match_score = ClampedScore(i)
                   /\ result.value[n].name =
                          extract_name_and_summary(args.docs[i], IdOf(i),
                                                   OutcomeOf(i)).name
                   /\ result.value[n].summary =
                          extract_name_and_summary(args.docs[i], IdOf(i),
                                                   OutcomeOf(i)).summary

\* The second document scored higher than the first and is returned first,
\* under the id local-doc-2 and the name of its own first line; the first
\* document, an empty text, follows under the name built from its id.
C30_Witness ==
    /\ LocalMode /\ Returned
    /\ Len(args.docs) = 2 /\ args.docs[1] = EMPTY
    /\ scores[1] < scores[2] /\ scores[2] > 0 /\ scores[2] < ScoreDen
    /\ Len(result.value) = 2
    /\ result.value[1].id = IdOf(2)
    /\ result.value[1].name = <<"B", "o">>
    /\ result.value[1].match_score = 100 * scores[2]
    /\ result.value[2].id = IdOf(1)
    /\ result.value[2].name = CANDIDATE_SP \o IdOf(1)
=============================================================================
